---- MODULE Spec2Model ----
(***************************************************************************)
(* nu_plugin_bio: the format adapters of src/bio_format and their          *)
(* dispatch in src/bio.rs.  Every adapter is a synchronous function of     *)
(* one input value, the call's flags and the compression mode.  The bytes  *)
(* of an input are opaque to the adapters: what they see is what the       *)
(* external decoder yields for them (a header or a header error, then a    *)
(* finite sequence of records, record errors or panics), so an input       *)
(* value carries that decoder script.  One invocation is one step of the   *)
(* state machine: pc goes from "call" to "done" and outcome is set to the  *)
(* value, the error or the panic the adapter ends with.  cmd is the name   *)
(* of the plugin command, which fixes the compression mode.  served counts *)
(* the invocations that the plugin process has completed.                  *)
(***************************************************************************)
EXTENDS Integers, Sequences, FiniteSets, TLC

VARIABLES cmd, flags, input, pc, outcome, served

vars == <<cmd, flags, input, pc, outcome, served>>

-----------------------------------------------------------------------------
(* Bounds of the model. *)

\* longest sequence of items a decoder script yields
MaxRecords == 2
\* longest list handed to a reverse mapper
MaxList == 2
\* most auxiliary fields of one alignment record
MaxFields == 3
\* most invocations that one plugin process serves
MaxCalls == 2

-----------------------------------------------------------------------------
(* nu_protocol::Value, Result and Option. *)

VStr(s) == [type |-> "string", val |-> s]
\* a string value whose payload is kept character by character (the
\* sequence formats, whose text is written and parsed)
VText(cs) == [type |-> "string", chars |-> cs]
VInt(i) == [type |-> "int", ival |-> i]
VList(vs) == [type |-> "list", items |-> vs]
VRecord(cols, vals) == [type |-> "record", cols |-> cols, vals |-> vals]
VNothing == [type |-> "nothing"]

Ok(v) == [kind |-> "ok", value |-> v]
Err(m) == [kind |-> "err", msg |-> m]
Panic == [kind |-> "panic"]
NoOutcome == [kind |-> "none"]

None == [k |-> "none"]
Some(v) == [k |-> "some", v |-> v]
ROk(v) == [k |-> "ok", v |-> v]
RErr(m) == [k |-> "err", e |-> m]

Min(a, b) == IF a < b THEN a ELSE b

\* Record::from_iter(cols.zip(vals)): zip stops at the shorter side
RecordFromZip(cols, vals) ==
  LET n == Min(Len(cols), Len(vals))
  IN  VRecord(SubSeq(cols, 1, n), SubSeq(vals, 1, n))

\* Value::get_type() as it is printed in an error message
get_type(v) ==
  CASE v.type = "int" -> "int"
    [] v.type = "nothing" -> "nothing"
    [] v.type = "list" -> "list<any>"
    [] v.type = "string" -> "string"
    [] v.type = "binary" -> "binary"
    [] OTHER -> "record"

\* bytes with their UTF-8 validity; text is the lossy rendering
Bytes(t, ok) == [text |-> t, valid |-> ok]

from_utf8_lossy(b) == b.text

Compression == {"Uncompressed", "Gzipped"}

-----------------------------------------------------------------------------
(* SpanExt (bio_format/mod.rs): string values built at the call's span. *)

with_string(s) == VStr(s)

with_string_or(opt, default) ==
  IF opt.k = "some" THEN VStr(opt.v) ELSE VStr(default)

-----------------------------------------------------------------------------
(* bam.rs: the alignment header and record mappers, BAM and SAM drivers. *)

BAM_COLUMNS ==
  << "read_name", "flags", "reference_sequence_id", "alignment_start",
     "mapping_quality", "cigar", "mate_reference_sequence_id",
     "mate_alignment_start", "template_length", "sequence",
     "quality_scores", "data" >>

BAM_HEADER_COLUMNS ==
  << "metadata", "reference_sequences", "read_groups", "programs", "comments" >>

\* Map::<Header>::default().version() of the decoder library
DefaultSamVersion == "1.6"

MapSeq(f(_), s) == [i \in 1..Len(s) |-> f(s[i])]

RefSeqEntry(f) ==
  VRecord(<<"sequence_name", "sequence_length">>,
          <<with_string(f.name), VInt(f.length)>>)

\* a read-group entry that leaves out the sub-fields it has no value for
ReadGroupEntryIdOnly(id) == VRecord(<<"id">>, <<with_string(id)>>)

ReadGroupEntry(id) ==
  VRecord(<< "id", "barcode", "sequencing_center", "description", "flow_order",
             "key_sequence", "library", "program", "platform",
             "predicted_insert_size", "platform_model", "platform_unit",
             "sample" >>,
          << with_string(id), with_string("unknown"), with_string("unknown"),
             with_string("unknown"), with_string("unknown"),
             with_string("unknown"), with_string("unknown"),
             with_string("unknown"), with_string("unknown"), VInt(0),
             with_string("unknown"), with_string("unknown"),
             with_string("unknown") >>)

RefSeqName(f) == f.name

SelfId(x) == x

\* parse_header of bam.rs; h is the decoder's sam::Header
bam_parse_header(h) ==
  LET version == IF h.hd.k = "some" THEN h.hd.v ELSE DefaultSamVersion
      header_nuon ==
        VRecord(<<"version", "sorting_order", "grouping", "sub_sort_order">>,
                << with_string(version), with_string("unknown"),
                   with_string("unknown"), with_string("unknown") >>)
      reference_sequences_nuon ==
        VRecord(MapSeq(RefSeqName, h.reference_sequences),
                MapSeq(RefSeqEntry, h.reference_sequences))
      read_groups_nuon ==
        VRecord(MapSeq(SelfId, h.read_groups),
                MapSeq(ReadGroupEntry, h.read_groups))
      programs_nuon == VRecord(<<>>, <<>>)
      comments_nuon == VList(MapSeq(with_string, h.comments))
  IN  VRecord(BAM_HEADER_COLUMNS,
              << header_nuon, reference_sequences_nuon, read_groups_nuon,
                 programs_nuon, comments_nuon >>)

\* sam::Header::is_empty()
HeaderIsEmpty(h) ==
  /\ h.hd.k = "none"
  /\ h.reference_sequences = <<>>
  /\ h.read_groups = <<>>
  /\ h.comments = <<>>

\* hexadecimal digits of n, at least w of them
RECURSIVE HexDigits(_, _)
HexDigits(n, w) ==
  LET d == n % 16
      c == IF d < 10 THEN ToString(d)
           ELSE <<"a", "b", "c", "d", "e", "f">>[d - 9]
  IN  IF n < 16 /\ w <= 1 THEN c ELSE HexDigits(n \div 16, w - 1) \o c

\* format!("{:#06x}", flags)
FormatFlags(bits) == "0x" \o HexDigits(bits, 4)

\* the accessor rendered with the placeholder of the indices for every field
OptResultOrStar(x, placeholder) ==
  IF x.k = "some" /\ x.v.k = "ok" THEN ToString(x.v.v) ELSE "*"

\* an Option<io::Result<T>> accessor rendered with a placeholder
OptResultOr(x, placeholder) ==
  IF x.k = "some" /\ x.v.k = "ok" THEN ToString(x.v.v) ELSE placeholder

\* format!("{:?}", value): the variant's name as Debug prints it
DebugName(ty) ==
  CASE ty = "Int8" -> <<"I", "n", "t", "8">>
    [] ty = "UInt8" -> <<"U", "I", "n", "t", "8">>
    [] ty = "Int16" -> <<"I", "n", "t", "1", "6">>
    [] ty = "UInt16" -> <<"U", "I", "n", "t", "1", "6">>
    [] ty = "UInt32" -> <<"U", "I", "n", "t", "3", "2">>

\* one auxiliary field (tag, value) rendered as its characters; the tag and
\* the value's text are sequences of characters
RenderField(f) ==
  LET value_str ==
        CASE f.ty = "Character" -> <<"A", ":">> \o f.repr
          [] f.ty = "Int32" -> <<"i", ":">> \o f.repr
          [] f.ty = "Float" -> <<"f", ":">> \o f.repr
          [] f.ty = "String" -> <<"Z", ":">> \o f.repr
          [] f.ty = "Hex" -> <<"H", ":">> \o f.repr
          [] f.ty = "Array" -> <<"B", ":", "a", "r", "r", "a", "y">>
          [] OTHER -> DebugName(f.ty) \o <<"(">> \o f.repr \o <<")">>
  IN  f.tag \o <<":">> \o value_str

\* r.data().iter().filter_map(|x| x.ok().map(render)): failed fields vanish
RECURSIVE RenderedFields(_)
RenderedFields(data) ==
  IF data = <<>> THEN <<>>
  ELSE IF Head(data).k = "ok"
       THEN <<RenderField(Head(data).v)>> \o RenderedFields(Tail(data))
       ELSE RenderedFields(Tail(data))

\* Vec<String>::join(sep) with the separator after every piece
RECURSIVE JoinTrailing(_, _)
JoinTrailing(strs, sep) ==
  IF strs = <<>> THEN <<>>
  ELSE strs[1] \o sep \o JoinTrailing(Tail(strs), sep)

\* Vec<String>::join(sep), on sequences of characters
RECURSIVE Join(_, _)
Join(strs, sep) ==
  IF strs = <<>> THEN <<>>
  ELSE IF Len(strs) = 1 THEN strs[1]
       ELSE strs[1] \o sep \o Join(Tail(strs), sep)

\* create_record_values listing the mapping quality before the alignment
\* start, against the order of BAM_COLUMNS
create_record_values_misordered(r, header) ==
  LET flags_bits == IF r.flags.k = "ok" THEN r.flags.v ELSE 0
      mapping_quality == OptResultOr(r.mapping_quality, "*")
      reference_sequence_id == OptResultOr(r.reference_sequence_id, "*")
      alignment_start == OptResultOr(r.alignment_start, "0")
      cigar == "cigar_ops:" \o ToString(r.cigar_len)
      sequence == IF r.sequence_len > 0
                  THEN "sequence_length:" \o ToString(r.sequence_len)
                  ELSE "*"
      quality_scores == IF r.quality_len > 0
                        THEN "quality_length:" \o ToString(r.quality_len)
                        ELSE "quality_length:0"
      mate_reference_sequence_id ==
        OptResultOr(r.mate_reference_sequence_id, "*")
      mate_alignment_start == OptResultOr(r.mate_alignment_start, "0")
      template_length == IF r.template_length.k = "ok"
                         THEN ToString(r.template_length.v) ELSE "0"
      data == Join(RenderedFields(r.data), <<"\t">>)
      name_opt == IF r.name.k = "some"
                  THEN Some(from_utf8_lossy(r.name.v)) ELSE None
  IN  << with_string_or(name_opt, "No read name."),
         with_string(FormatFlags(flags_bits)),
         with_string(reference_sequence_id),
         with_string(mapping_quality),
         with_string(alignment_start),
         with_string(cigar),
         with_string(mate_reference_sequence_id),
         with_string(mate_alignment_start),
         with_string(template_length),
         with_string(sequence),
         with_string(quality_scores),
         VText(data) >>

\* create_record_values: the twelve values of one alignment record
create_record_values(r, header) ==
  LET flags_bits == IF r.flags.k = "ok" THEN r.flags.v ELSE 0
      mapping_quality == OptResultOr(r.mapping_quality, "*")
      reference_sequence_id == OptResultOr(r.reference_sequence_id, "*")
      alignment_start == OptResultOr(r.alignment_start, "0")
      cigar == "cigar_ops:" \o ToString(r.cigar_len)
      sequence == IF r.sequence_len > 0
                  THEN "sequence_length:" \o ToString(r.sequence_len)
                  ELSE "*"
      quality_scores == IF r.quality_len > 0
                        THEN "quality_length:" \o ToString(r.quality_len)
                        ELSE "quality_length:0"
      mate_reference_sequence_id ==
        OptResultOr(r.mate_reference_sequence_id, "*")
      mate_alignment_start == OptResultOr(r.mate_alignment_start, "0")
      template_length == IF r.template_length.k = "ok"
                         THEN ToString(r.template_length.v) ELSE "0"
      data == Join(RenderedFields(r.data), <<"\t">>)
      name_opt == IF r.name.k = "some"
                  THEN Some(from_utf8_lossy(r.name.v)) ELSE None
  IN  << with_string_or(name_opt, "No read name."),
         with_string(FormatFlags(flags_bits)),
         with_string(reference_sequence_id),
         with_string(alignment_start),
         with_string(mapping_quality),
         with_string(cigar),
         with_string(mate_reference_sequence_id),
         with_string(mate_alignment_start),
         with_string(template_length),
         with_string(sequence),
         with_string(quality_scores),
         VText(data) >>

\* one decoded alignment record zipped with the schema
AlignmentRecord(r, header) ==
  RecordFromZip(BAM_COLUMNS, create_record_values(r, header))

\* the collect of from_bam_inner passing over the items that are errors
RECURSIVE CollectAlignmentsSkipping(_, _)
CollectAlignmentsSkipping(items, header) ==
  IF items = <<>> THEN Ok(<<>>)
  ELSE IF Head(items).k # "ok"
       THEN CollectAlignmentsSkipping(Tail(items), header)
       ELSE Ok(<<AlignmentRecord(Head(items).v, header)>>
               \o CollectAlignmentsSkipping(Tail(items), header).value)

\* reader.records().map(..).collect::<Result<Vec<_>, _>>(): the values of
\* the records up to the first error, or that error
RECURSIVE CollectAlignments(_, _)
CollectAlignments(items, header) ==
  IF items = <<>> THEN Ok(<<>>)
  ELSE IF Head(items).k # "ok"
       THEN Err("Record reading failed. cause of failure: " \o Head(items).e)
       ELSE LET rest == CollectAlignments(Tail(items), header)
            IN  IF rest.kind = "err" THEN rest
                ELSE Ok(<<AlignmentRecord(Head(items).v, header)>> \o rest.value)

HeaderBody(header, body) ==
  VRecord(<<"header", "body">>, <<header, VList(body)>>)

IsBytesInput(v) == v.type \in {"binary", "string"}

from_bam_inner(inp) ==
  IF ~IsBytesInput(inp)
  THEN Err("Input must be binary or string data, got " \o get_type(inp))
  ELSE IF inp.dec.header.k = "err"
  THEN Err("Could not read header. error reading header at " \o inp.dec.header.e)
  ELSE LET raw_header == inp.dec.header.v
           header ==
             IF HeaderIsEmpty(raw_header)
             THEN bam_parse_header(
                    [hd |-> None,
                     reference_sequences |-> raw_header.reference_sequences,
                     read_groups |-> <<>>, comments |-> <<>>])
             ELSE bam_parse_header(raw_header)
           value_records == CollectAlignments(inp.dec.records, raw_header)
       IN  IF value_records.kind = "err" THEN value_records
           ELSE Ok(HeaderBody(header, value_records.value))

from_sam_inner(inp) ==
  IF ~IsBytesInput(inp)
  THEN Err("Input must be binary or string data")
  ELSE IF inp.dec.header.k = "err"
  THEN Err("Unable to parse SAM header: " \o inp.dec.header.e)
  ELSE LET header == inp.dec.header.v
           header_nuon == bam_parse_header(header)
           value_records == CollectAlignments(inp.dec.records, header)
       IN  IF value_records.kind = "err" THEN value_records
           ELSE Ok(HeaderBody(header_nuon, value_records.value))


-----------------------------------------------------------------------------
(* cram.rs *)

\* the loop of from_cram_inner under catch_unwind: an error item breaks the
\* loop keeping temp_records, a panic unwinds and temp_records is lost
RECURSIVE CramLoop(_, _, _)
CramLoop(items, header, temp_records) ==
  IF items = <<>> THEN [panicked |-> FALSE, records |-> temp_records]
  ELSE CASE Head(items).k = "ok" ->
              CramLoop(Tail(items), header,
                       Append(temp_records, AlignmentRecord(Head(items).v, header)))
         [] Head(items).k = "err" ->
              [panicked |-> FALSE, records |-> temp_records]
         [] OTHER -> [panicked |-> TRUE, records |-> <<>>]

CramNote == "CRAM file may require a reference sequence for full parsing"

from_cram_inner(inp) ==
  IF ~IsBytesInput(inp)
  THEN Err("Input must be binary or string data, got " \o get_type(inp))
  ELSE IF inp.dec.file_definition.k = "err"
  THEN Err("Could not read CRAM file definition. cause of failure: "
           \o inp.dec.file_definition.e)
  ELSE IF inp.dec.header.k = "err"
  THEN Err("CRAM file header reading failed. cause of failure: "
           \o inp.dec.header.e)
  ELSE LET header == inp.dec.header.v
           header_nuon == bam_parse_header(header)
           caught == CramLoop(inp.dec.records, header, <<>>)
       IN  IF caught.panicked
           THEN Ok(VRecord(<<"header", "body", "note">>,
                           <<header_nuon, VList(<<>>), with_string(CramNote)>>))
           ELSE Ok(HeaderBody(header_nuon, caught.records))

-----------------------------------------------------------------------------
(* bcf.rs: the variant header mapper, VCF and BCF drivers. *)

VCF_COLUMNS ==
  << "chrom", "pos", "rlen", "qual", "id", "ref", "alt", "filter", "info",
     "genotypes" >>

VCF_HEADER_COLUMNS ==
  << "file_format", "info", "filter", "format", "alt_alleles", "contig",
     "samples" >>

EntryKey(e) == e.key

NumberTypeDescription(f) ==
  VRecord(<<"number", "type", "description">>,
          <<with_string(f.number), with_string(f.ty), with_string(f.description)>>)

DescriptionOnly(f) ==
  VRecord(<<"description">>, <<with_string(f.description)>>)

ContigEntry(f) ==
  VRecord(<<"length">> \o MapSeq(EntryKey, f.other_fields),
          <<VInt(IF f.length.k = "some" THEN f.length.v ELSE 0)>>
            \o [i \in 1..Len(f.other_fields) |-> with_string(f.other_fields[i].value)])

\* parse_header of bcf.rs; h is the decoder's vcf::Header
vcf_parse_header(h) ==
  LET file_format == with_string(h.file_format)
      infos_nuon == VRecord(MapSeq(EntryKey, h.infos),
                            MapSeq(NumberTypeDescription, h.infos))
      filters_nuon == VRecord(MapSeq(EntryKey, h.filters),
                              MapSeq(DescriptionOnly, h.filters))
      formats_nuon == VRecord(MapSeq(EntryKey, h.formats),
                              MapSeq(NumberTypeDescription, h.formats))
      alt_alleles_nuon == VRecord(MapSeq(EntryKey, h.alternative_alleles),
                                  MapSeq(DescriptionOnly, h.alternative_alleles))
      contigs_nuon == VRecord(MapSeq(EntryKey, h.contigs),
                              MapSeq(ContigEntry, h.contigs))
      sample_names_nuon == VList(MapSeq(with_string, h.sample_names))
  IN  RecordFromZip(VCF_HEADER_COLUMNS,
                    << file_format, infos_nuon, filters_nuon, formats_nuon,
                       alt_alleles_nuon, contigs_nuon, sample_names_nuon >>)

\* add_record: the ten values of one variant record (its call sites are
\* commented out in both iterate functions)
add_record(r, vec_vals) ==
  vec_vals \o
  << with_string("unknown_chromosome"), VInt(0), VInt(0),
     with_string("unknown_quality"), with_string("unknown_ids"),
     with_string("unknown_reference_bases"),
     with_string("unknown_alternate_bases"), with_string("unknown_filters"),
     with_string("unknown_info"), with_string("unknown_genotypes") >>

\* read_bcf_header: the decoder's header with its nuon form, or the error
read_bcf_header(dec) ==
  IF dec.header.k = "err"
  THEN Err("Could not read header. header unreadable due to " \o dec.header.e)
  ELSE Ok([raw_header |-> dec.header.v,
           header_nuon |-> vcf_parse_header(dec.header.v)])

\* iterate_bcf_records: value_records grows by one record per decoded
\* record; vec_vals stays empty since add_record is not called
RECURSIVE iterate_bcf_records(_, _)
iterate_bcf_records(items, value_records) ==
  IF items = <<>> THEN Ok(value_records)
  ELSE IF Head(items).k # "ok"
       THEN Err("Record reading failed. cause of failure: " \o Head(items).e)
       ELSE LET vec_vals == <<>>
                record_inner == RecordFromZip(VCF_COLUMNS, vec_vals)
            IN  iterate_bcf_records(Tail(items), Append(value_records, record_inner))

\* Result::unwrap
Unwrap(res) == IF res.kind = "ok" THEN res ELSE Panic

\* from_bcf_inner taking text as the other adapters do
from_bcf_inner_text_too(inp, compression) ==
  IF ~IsBytesInput(inp)
  THEN Err("Input should be binary. requires binary input, got " \o get_type(inp))
  ELSE LET hdr == Unwrap(read_bcf_header(inp.dec))
       IN  IF hdr.kind = "panic" THEN Panic
           ELSE LET body == Unwrap(iterate_bcf_records(inp.dec.records, <<>>))
                IN  IF body.kind = "panic" THEN Panic
                    ELSE Ok(HeaderBody(hdr.value.header_nuon, body.value))

from_bcf_inner(inp, compression) ==
  IF inp.type # "binary"
  THEN Err("Input should be binary. requires binary input, got " \o get_type(inp))
  ELSE LET hdr == Unwrap(read_bcf_header(inp.dec))
       IN  IF hdr.kind = "panic" THEN Panic
           ELSE LET body == Unwrap(iterate_bcf_records(inp.dec.records, <<>>))
                IN  IF body.kind = "panic" THEN Panic
                    ELSE Ok(HeaderBody(hdr.value.header_nuon, body.value))

read_vcf_header(dec) ==
  IF dec.header.k = "err"
  THEN Err("Failed to read raw VCF header. cause of failure: " \o dec.header.e)
  ELSE Ok([raw_header |-> dec.header.v,
           header_nuon |-> vcf_parse_header(dec.header.v)])

RECURSIVE iterate_vcf_records(_, _)
iterate_vcf_records(items, value_records) ==
  IF items = <<>> THEN Ok(value_records)
  ELSE IF Head(items).k # "ok"
       THEN Err("Record reading failed. cause of failure: " \o Head(items).e)
       ELSE LET vec_vals == <<>>
                vec_vals_inner == RecordFromZip(VCF_COLUMNS, vec_vals)
            IN  iterate_vcf_records(Tail(items), Append(value_records, vec_vals_inner))

from_vcf_inner(inp, compression) ==
  IF ~IsBytesInput(inp)
  THEN Err("Input must be binary or string data")
  ELSE LET hdr == read_vcf_header(inp.dec)
       IN  IF hdr.kind = "err" THEN hdr
           ELSE LET body == Unwrap(iterate_vcf_records(inp.dec.records, <<>>))
                IN  IF body.kind = "panic" THEN Panic
                    ELSE Ok(HeaderBody(hdr.value.header_nuon, body.value))

-----------------------------------------------------------------------------
(* bed.rs and gff.rs: the record loops are commented out. *)

\* from_bed_inner with the record loop that the source has commented out
from_bed_inner_reading(inp) ==
  IF ~IsBytesInput(inp)
  THEN Err("Input must be binary or string data")
  ELSE Ok([i \in 1..Len(inp.dec.records) |-> with_string(inp.dec.records[i].v)])

from_bed_inner(inp) ==
  IF ~IsBytesInput(inp)
  THEN Err("Input must be binary or string data")
  ELSE Ok(<<>>)

from_gff_inner(inp) ==
  IF ~IsBytesInput(inp)
  THEN Err("Input must be binary or string data")
  ELSE Ok(<<>>)


-----------------------------------------------------------------------------
(* fasta.rs: FASTA and FASTQ drivers and the two reverse mappers.  The     *)
(* payload of a sequence record is a sequence of characters.               *)

\* call.head.with_string_from_utf8 / with_string on the bytes of a record
with_string_from_utf8(cs) == VText(cs)

\* the positions of the line feeds of a text
LineFeeds(text) == {i \in 1..Len(text) : text[i] = "\n"}

\* the position of the k-th line feed, 0 for k = 0
LineFeedAt(text, k) ==
  IF k = 0 THEN 0
  ELSE CHOOSE p \in LineFeeds(text) :
         Cardinality({q \in LineFeeds(text) : q <= p}) = k

\* the lines of a text: what stands between two line feeds, and what
\* follows the last one when the text does not end with a line feed
SplitLines(text) ==
  [k \in 1..Cardinality(LineFeeds(text)) |->
     SubSeq(text, LineFeedAt(text, k - 1) + 1, LineFeedAt(text, k) - 1)]
  \o (IF LineFeedAt(text, Cardinality(LineFeeds(text))) < Len(text)
      THEN <<SubSeq(text, LineFeedAt(text, Cardinality(LineFeeds(text))) + 1,
                    Len(text))>>
      ELSE <<>>)

\* the position of the first ch of a line, 0 when there is none
FirstIndex(line, ch) ==
  IF \E i \in 1..Len(line) : line[i] = ch
  THEN CHOOSE i \in 1..Len(line) :
         line[i] = ch /\ \A j \in 1..(i - 1) : line[j] # ch
  ELSE 0

\* str::trim on a text whose only white space is the blank
RECURSIVE Trim(_)
Trim(cs) ==
  IF cs = <<>> THEN cs
  ELSE IF Head(cs) = " " THEN Trim(Tail(cs))
  ELSE IF cs[Len(cs)] = " " THEN Trim(SubSeq(cs, 1, Len(cs) - 1))
  ELSE cs

StartsWith(line, ch) == line # <<>> /\ line[1] = ch

\* the definition line of a FASTA record after its prefix: the name up to
\* the first blank, the trimmed rest as the description
FastaDefinitionAt(line, i) ==
  IF (IF i = 0 THEN line ELSE SubSeq(line, 1, i - 1)) = <<>>
  THEN RErr("missing name")
  ELSE ROk([name |-> IF i = 0 THEN line ELSE SubSeq(line, 1, i - 1),
            description |->
              IF i = 0 THEN None ELSE Some(Trim(SubSeq(line, i + 1, Len(line))))])

\* the sequence lines up to the next definition, joined, and the lines left
RECURSIVE FastaSequence(_, _)
FastaSequence(lines, seq) ==
  IF lines = <<>> \/ StartsWith(Head(lines), ">")
  THEN [sequence |-> seq, rest |-> lines]
  ELSE FastaSequence(Tail(lines), seq \o Head(lines))

\* fasta::io::Reader::records over the lines of a text: the items it yields
RECURSIVE fasta_reader_records(_, _)
RECURSIVE FastaNextRecord(_, _, _)
FastaNextRecord(def, body, items) ==
  IF def.k = "err" THEN Append(items, def)
  ELSE fasta_reader_records(
         body.rest,
         Append(items, ROk([name |-> def.v.name,
                            description |-> def.v.description,
                            sequence |-> body.sequence])))

fasta_reader_records(lines, items) ==
  IF lines = <<>> THEN items
  ELSE IF ~StartsWith(Head(lines), ">") THEN Append(items, RErr("missing prefix"))
  ELSE FastaNextRecord(
         FastaDefinitionAt(Tail(Head(lines)), FirstIndex(Tail(Head(lines)), " ")),
         FastaSequence(Tail(lines), <<>>), items)

\* the definition line of a FASTQ record after its prefix
FastqDefinitionAt(line, i) ==
  [name |-> IF i = 0 THEN line ELSE SubSeq(line, 1, i - 1),
   description |-> IF i = 0 THEN <<>> ELSE SubSeq(line, i + 1, Len(line))]

FastqRecordOf(def, sequence, quality_scores) ==
  [name |-> def.name, description |-> def.description, sequence |-> sequence,
   quality_scores |-> quality_scores]

\* fastq::io::Reader::records over the lines of a text: four lines a record
RECURSIVE fastq_reader_records(_, _)
fastq_reader_records(lines, items) ==
  IF lines = <<>> THEN items
  ELSE IF \/ Len(lines) < 4
          \/ ~StartsWith(lines[1], "@")
          \/ ~StartsWith(lines[3], "+")
  THEN Append(items, RErr("invalid record"))
  ELSE fastq_reader_records(
         SubSeq(lines, 5, Len(lines)),
         Append(items,
                ROk(FastqRecordOf(
                      FastqDefinitionAt(Tail(lines[1]), FirstIndex(Tail(lines[1]), " ")),
                      lines[2], lines[4]))))

\* the column list with the quality scores before the description
FastqColsQualityFirst(description, quality_scores) ==
  CASE ~description /\ ~quality_scores -> <<"id", "sequence">>
    [] description /\ ~quality_scores -> <<"id", "description", "sequence">>
    [] ~description /\ quality_scores -> <<"id", "quality_scores", "sequence">>
    [] OTHER -> <<"id", "quality_scores", "description", "sequence">>

FastqCols(description, quality_scores) ==
  CASE ~description /\ ~quality_scores -> <<"id", "sequence">>
    [] description /\ ~quality_scores -> <<"id", "description", "sequence">>
    [] ~description /\ quality_scores -> <<"id", "quality_scores", "sequence">>
    [] OTHER -> <<"id", "description", "quality_scores", "sequence">>

FastaCols(description) ==
  IF description THEN <<"id", "description", "sequence">>
  ELSE <<"id", "sequence">>

RECURSIVE iterate_fastq_records(_, _, _, _, _)
iterate_fastq_records(items, value_records, description, quality_scores, cols) ==
  IF items = <<>> THEN Ok(value_records)
  ELSE IF Head(items).k # "ok"
       THEN Err("Record reading failed. cause of failure: " \o Head(items).e)
       ELSE LET r == Head(items).v
                vec_vals ==
                  <<with_string_from_utf8(r.name)>>
                  \o (IF description
                      THEN <<with_string_from_utf8(r.description)>> ELSE <<>>)
                  \o (IF quality_scores
                      THEN <<with_string_from_utf8(r.quality_scores)>> ELSE <<>>)
                  \o <<with_string_from_utf8(r.sequence)>>
                tmp_record == RecordFromZip(cols, vec_vals)
            IN  iterate_fastq_records(Tail(items), Append(value_records, tmp_record),
                                      description, quality_scores, cols)

from_fastq_inner(inp, compression, description, quality_scores) ==
  IF ~IsBytesInput(inp)
  THEN Err("Input must be binary or string data")
  ELSE iterate_fastq_records(inp.dec.records, <<>>, description, quality_scores,
                             FastqCols(description, quality_scores))

RECURSIVE iterate_fasta_records(_, _, _, _)
iterate_fasta_records(items, value_records, description, cols) ==
  IF items = <<>> THEN Ok(value_records)
  ELSE IF Head(items).k # "ok"
       THEN Err("Record reading failed. cause of failure: " \o Head(items).e)
       ELSE LET r == Head(items).v
                vec_vals ==
                  <<with_string_from_utf8(r.name)>>
                  \o (IF description
                      THEN <<IF r.description.k = "some"
                             THEN VText(r.description.v) ELSE VText(<<>>)>>
                      ELSE <<>>)
                  \o <<with_string_from_utf8(r.sequence)>>
                tmp_record == RecordFromZip(cols, vec_vals)
            IN  iterate_fasta_records(Tail(items), Append(value_records, tmp_record),
                                      description, cols)

from_fasta_inner(inp, compression, description) ==
  IF ~IsBytesInput(inp)
  THEN Err("Input must be binary or string data")
  ELSE iterate_fasta_records(inp.dec.records, <<>>, description,
                             FastaCols(description))

\* the sequence lines of the FASTA writer: at most 80 bases a line
RECURSIVE SequenceLines(_)
SequenceLines(bases) ==
  IF bases = <<>> THEN <<>>
  ELSE LET n == Min(80, Len(bases))
       IN  SubSeq(bases, 1, n) \o <<"\n">>
           \o SequenceLines(SubSeq(bases, n + 1, Len(bases)))

\* fasta Writer::write_record
FastaWriteRecord(name, description, sequence) ==
  <<">">> \o name
  \o (IF description.k = "some" THEN <<" ">> \o description.v ELSE <<>>)
  \o <<"\n">> \o SequenceLines(sequence)

\* fastq Writer::write_record
FastqWriteRecord(name, description, sequence, quality) ==
  <<"@">> \o name
  \o (IF description # <<>> THEN <<" ">> \o description ELSE <<>>)
  \o <<"\n">> \o sequence \o <<"\n", "+", "\n">> \o quality \o <<"\n">>

IsStr(v) == v.type = "string"

\* vals.get(i).map(|e| e.as_str().unwrap()), i counted from 0:
\* None past the end, a panic on a value that is no string
GetStr(vals, i) ==
  IF i + 1 > Len(vals) THEN ROk(None)
  ELSE IF IsStr(vals[i + 1]) THEN ROk(Some(vals[i + 1].chars))
       ELSE [k |-> "panic"]

UnwrapOrEmpty(opt) == IF opt.k = "some" THEN opt.v ELSE <<>>

\* the body of the loop of nuon_to_fasta for one element: the text it
\* writes, an error or a panic
FastaElement(el) ==
  IF el.type # "record" THEN Err("Can't convert to record")
  ELSE IF el.vals = <<>> THEN Panic
  ELSE LET vals == SubSeq(el.vals, 1, Len(el.vals) - 1)
           last == el.vals[Len(el.vals)]
           id == GetStr(vals, 0)
           description == GetStr(vals, 1)
       IN  IF ~IsStr(last) THEN Err("Can't convert to string")
           ELSE IF id.k = "panic" \/ description.k = "panic" THEN Panic
           ELSE Ok(FastaWriteRecord(UnwrapOrEmpty(id.v), description.v, last.chars))

\* a loop over the elements whose body is Element: the text written so
\* far grows until an element fails
RECURSIVE WriteAll(_, _, _)
WriteAll(Element(_), list, out) ==
  IF list = <<>> THEN Ok(out)
  ELSE LET one == Element(Head(list))
       IN  IF one.kind # "ok" THEN one
           ELSE WriteAll(Element, Tail(list), out \o one.value)

TextResult(res) == IF res.kind = "ok" THEN Ok(VText(res.value)) ELSE res

nuon_to_fasta(inp) ==
  IF inp.type = "list"
  THEN TextResult(WriteAll(FastaElement, inp.items, <<>>))
  ELSE Ok(VText(<<>>))

Contains(seq, x) == \E i \in 1..Len(seq) : seq[i] = x

\* the loop body of nuon_to_fastq reading the quality before the description
FastqElementQualityFirst(el, description, quality) ==
  IF el.type # "record" THEN Err("Can't convert to record")
  ELSE IF el.vals = <<>> THEN Panic
  ELSE LET vals == SubSeq(el.vals, 1, Len(el.vals) - 1)
           last == el.vals[Len(el.vals)]
           id == GetStr(vals, 0)
           d == IF description THEN GetStr(vals, 2) ELSE ROk(None)
           q == GetStr(vals, 1)
       IN  IF ~IsStr(last) THEN Err("Can't convert to string")
           ELSE IF id.k = "panic" \/ d.k = "panic" \/ q.k = "panic" THEN Panic
           ELSE Ok(FastqWriteRecord(UnwrapOrEmpty(id.v), UnwrapOrEmpty(d.v),
                                    last.chars, UnwrapOrEmpty(q.v)))

\* the body of the loop of nuon_to_fastq for one element, under the shape
\* (description, quality) read from the first element
FastqElement(el, description, quality) ==
  IF el.type # "record" THEN Err("Can't convert to record")
  ELSE IF el.vals = <<>> THEN Panic
  ELSE LET vals == SubSeq(el.vals, 1, Len(el.vals) - 1)
           last == el.vals[Len(el.vals)]
           id == GetStr(vals, 0)
           d == IF description THEN GetStr(vals, 1) ELSE ROk(None)
           q == IF description THEN GetStr(vals, 2) ELSE GetStr(vals, 1)
       IN  IF ~IsStr(last) THEN Err("Can't convert to string")
           ELSE IF id.k = "panic" \/ d.k = "panic" \/ q.k = "panic" THEN Panic
           ELSE Ok(FastqWriteRecord(UnwrapOrEmpty(id.v), UnwrapOrEmpty(d.v),
                                    last.chars, UnwrapOrEmpty(q.v)))

\* nuon_to_fastq checking for the quality column only after the records
\* were written, so that a fault of a later record is reported first
nuon_to_fastq_quality_checked_last(inp) ==
  IF inp.type # "list" THEN Ok(VText(<<>>))
  ELSE IF inp.items = <<>>
  THEN Err("No value: There was no first value to call 'to fastq' on")
  ELSE IF inp.items[1].type # "record" THEN Err("Can't convert to record")
  ELSE LET description == Contains(inp.items[1].cols, "description")
           quality == Contains(inp.items[1].cols, "quality_scores")
           Element(el) == FastqElement(el, description, quality)
           written == WriteAll(Element, inp.items, <<>>)
       IN  IF written.kind # "ok" THEN written
           ELSE IF ~quality
           THEN Err("No quality scores: Consider using 'to fasta' if you don't have any quality scores, or pass the -q option on a fastq")
           ELSE TextResult(written)

\* nuon_to_fastq writing nothing for an empty list, as nuon_to_fasta does
nuon_to_fastq_empty_text(inp) ==
  IF inp.type # "list" THEN Ok(VText(<<>>))
  ELSE IF inp.items = <<>> THEN Ok(VText(<<>>))
  ELSE IF inp.items[1].type # "record" THEN Err("Can't convert to record")
  ELSE IF ~Contains(inp.items[1].cols, "quality_scores")
  THEN Err("No quality scores: Consider using 'to fasta' if you don't have any quality scores, or pass the -q option on a fastq")
  ELSE LET description == Contains(inp.items[1].cols, "description")
           Element(el) == FastqElement(el, description, TRUE)
       IN  TextResult(WriteAll(Element, inp.items, <<>>))

nuon_to_fastq(inp) ==
  IF inp.type # "list" THEN Ok(VText(<<>>))
  ELSE IF inp.items = <<>>
  THEN Err("No value: There was no first value to call 'to fastq' on")
  ELSE IF inp.items[1].type # "record" THEN Err("Can't convert to record")
  ELSE LET cols == inp.items[1].cols
           description == Contains(cols, "description")
           quality == Contains(cols, "quality_scores")
           Element(el) == FastqElement(el, description, quality)
       IN  IF ~quality
           THEN Err("No quality scores: Consider using 'to fasta' if you don't have any quality scores, or pass the -q option on a fastq")
           ELSE TextResult(WriteAll(Element, inp.items, <<>>))


-----------------------------------------------------------------------------
(* gfa.rs *)

\* string_from_utf8 with the lossy conversion of the alignment adapters
string_from_utf8_lossy(inner, context) == Ok(from_utf8_lossy(inner))

\* string_from_utf8: the text of valid bytes, or an error naming the context
string_from_utf8(inner, context) ==
  IF inner.valid THEN Ok(inner.text)
  ELSE Err(context \o ": invalid utf-8 sequence")

\* the elements with a comma between them and none after the last
RECURSIVE FoldCommaBetween(_)
FoldCommaBetween(strs) ==
  IF strs = <<>> THEN ""
  ELSE IF Len(strs) = 1 THEN Head(strs)
       ELSE Head(strs) \o "," \o FoldCommaBetween(Tail(strs))

\* a.fold(String::new(), |a, b| a + &b + ","): every element followed by a comma
RECURSIVE FoldComma(_)
FoldComma(strs) ==
  IF strs = <<>> THEN ""
  ELSE Head(strs) \o "," \o FoldComma(Tail(strs))

\* format!("{:#05x}", e)
FormatHexByte(e) == "0x" \o HexDigits(e, 3)

\* Result::map / the ? operator: the error of res, or F of its value
AndThen(res, F(_)) == IF res.kind = "err" THEN res ELSE F(res.value)

\* the closure tag_type_value of parse_optfieldval: TAG:TYPE:VALUE, with
\* the element prefix b of an array before the value
tag_type_value(tag, typ, value, b) ==
  LET Render(tag_string) ==
        Ok(with_string(tag_string \o ":" \o typ \o ":" \o b \o value))
  IN  AndThen(string_from_utf8(tag, "tag is malformed"), Render)

\* a payload kept as bytes: it is converted before the tag is
BytesPayload(tag, typ, bytes, context) ==
  LET Render(value) == tag_type_value(tag, typ, value, "")
  IN  AndThen(string_from_utf8(bytes, context), Render)

\* parse_optfieldval: the string of one optional field
parse_optfieldval(opt_field) ==
  LET tag == opt_field.tag
      val == opt_field.value
  IN  CASE val.ty = "A" -> BytesPayload(tag, "A", val.bytes, "'A' value malformed")
        [] val.ty = "Int" -> tag_type_value(tag, "i", ToString(val.int), "")
        [] val.ty = "Float" -> tag_type_value(tag, "f", val.repr, "")
        [] val.ty = "Z" -> BytesPayload(tag, "Z", val.bytes, "Z value malformed")
        [] val.ty = "J" -> BytesPayload(tag, "J", val.bytes, "J JSON value malformed")
        [] val.ty = "H" ->
             tag_type_value(tag, "Z", FoldComma(MapSeq(FormatHexByte, val.elems)), "")
        [] val.ty = "BInt" ->
             tag_type_value(tag, "B", FoldComma(MapSeq(ToString, val.elems)), "i:")
        [] OTHER ->
             tag_type_value(tag, "B", FoldComma(val.reprs), "f:")

\* one more element of a collect::<Result<Vec<_>, _>>(): the first error wins
ConsResult(one, rest) ==
  IF one.kind = "err" THEN one
  ELSE IF rest.kind = "err" THEN rest
  ELSE Ok(<<one.value>> \o rest.value)

\* optional.iter().map(parse_optfieldval).collect::<Result<Vec<_>, _>>()
RECURSIVE CollectOpts(_)
CollectOpts(optional) ==
  IF optional = <<>> THEN Ok(<<>>)
  ELSE ConsResult(parse_optfieldval(Head(optional)), CollectOpts(Tail(optional)))

\* the first error among results, taken in the order the code applies the
\* ? operator to them
RECURSIVE FirstErr(_)
FirstErr(results) ==
  IF results = <<>> THEN Ok(<<>>)
  ELSE IF Head(results).kind = "err" THEN Head(results)
       ELSE FirstErr(Tail(results))

\* the record of a line unless one of its conversions failed
RecordUnless(failed, cols, vals) ==
  IF failed.kind = "err" THEN failed ELSE Ok(VRecord(cols, vals))

\* the value of a result that may have failed (read only when none has)
ValueOf(res) == IF res.kind = "ok" THEN res.value ELSE ""

ListOf(res) == IF res.kind = "ok" THEN VList(res.value) ELSE VList(<<>>)

\* the value pushed for one parsed line, or the error that ends the parse
HeaderRecord(version, opts) ==
  RecordUnless(opts, <<"version", "optional_fields">>,
               <<with_string_or(version, "No version specified"), ListOf(opts)>>)

HeaderLine(h) ==
  HeaderRecord(IF h.version.k = "some" /\ h.version.v.valid
               THEN Some(h.version.v.text) ELSE None,
               CollectOpts(h.optional))

SegmentRecord(s, name, opts, seq) ==
  RecordUnless(FirstErr(<<seq, name, opts>>),
               <<"name", "sequence", "optional_fields">>,
               <<with_string(ValueOf(name)), with_string(ValueOf(seq)),
                 ListOf(opts)>>)

SegmentLine(s) ==
  SegmentRecord(s, string_from_utf8(s.name, "segment name malformed"),
                CollectOpts(s.optional),
                string_from_utf8(s.sequence, "segment sequence malformed"))

LinkRecord(l, fs, ts, overlap, opts) ==
  RecordUnless(FirstErr(<<fs, ts, overlap, opts>>),
               << "from_orient", "to_orient", "from_segment", "to_segment",
                  "overlaps", "optional_fields" >>,
               << with_string(l.from_orient), with_string(l.to_orient),
                  with_string(ValueOf(fs)), with_string(ValueOf(ts)),
                  with_string(ValueOf(overlap)), ListOf(opts) >>)

LinkLine(l) ==
  LinkRecord(l, string_from_utf8(l.from_segment, "from segment malformed"),
             string_from_utf8(l.to_segment, "to segment malformed"),
             string_from_utf8(l.overlap, "overlap (CIGAR) malformed"),
             CollectOpts(l.optional))

ContainmentRecord(c, containment_name, container_name, overlap, opts) ==
  RecordUnless(FirstErr(<<containment_name, container_name, overlap, opts>>),
               << "containment_name", "containment_orient", "container_name",
                  "container_orient", "overlap", "position", "optional_fields" >>,
               << with_string(ValueOf(containment_name)),
                  with_string(c.contained_orient),
                  with_string(ValueOf(container_name)),
                  with_string(c.container_orient),
                  with_string(ValueOf(overlap)), VInt(c.pos), ListOf(opts) >>)

ContainmentLine(c) ==
  ContainmentRecord(c,
    string_from_utf8(c.contained_name, "containment name malformed"),
    string_from_utf8(c.container_name, "container name malformed"),
    string_from_utf8(c.overlap, "overlap (CIGAR) malformed"),
    CollectOpts(c.optional))

OverlapValue(e) == with_string_or(e, "")

PathRecord(p, path_name, segment_names, opts) ==
  RecordUnless(FirstErr(<<segment_names, path_name, opts>>),
               <<"path_name", "segment_names", "overlaps", "optional_fields">>,
               << with_string(ValueOf(path_name)),
                  with_string(ValueOf(segment_names)),
                  VList(MapSeq(OverlapValue, p.overlaps)), ListOf(opts) >>)

PathLine(p) ==
  PathRecord(p, string_from_utf8(p.path_name, "malformed path name"),
             string_from_utf8(p.segment_names, "segment names in path malformed"),
             CollectOpts(p.optional))

EmptyCollections ==
  [header |-> <<>>, segments |-> <<>>, links |-> <<>>,
   containments |-> <<>>, paths |-> <<>>]

\* the collection a line kind is pushed to
LineTarget(line) ==
  CASE line.k = "H" -> "header"
    [] line.k = "S" -> "segments"
    [] line.k = "L" -> "links"
    [] line.k = "C" -> "containments"
    [] OTHER -> "paths"

LineValue(line) ==
  CASE line.k = "H" -> HeaderLine(line)
    [] line.k = "S" -> SegmentLine(line)
    [] line.k = "L" -> LinkLine(line)
    [] line.k = "C" -> ContainmentLine(line)
    [] OTHER -> PathLine(line)

\* lines_to_nuon passing over a line that fails to parse
RECURSIVE lines_to_nuon_tolerant(_, _)
lines_to_nuon_tolerant(lines, acc) ==
  IF lines = <<>> THEN Ok(acc)
  ELSE CASE Head(lines).k = "io_err" ->
              Err("Could not read a line in the GFA. cause of failure: "
                  \o Head(lines).e)
         [] Head(lines).k = "blank" -> lines_to_nuon_tolerant(Tail(lines), acc)
         [] Head(lines).k = "parse_err" -> lines_to_nuon_tolerant(Tail(lines), acc)
         [] OTHER ->
              LET Push(v) ==
                    lines_to_nuon_tolerant(Tail(lines),
                      [acc EXCEPT ![LineTarget(Head(lines))] = Append(@, v)])
              IN  AndThen(LineValue(Head(lines)), Push)

\* lines_to_nuon: the five collections after the last line, or the error
RECURSIVE lines_to_nuon(_, _)
lines_to_nuon(lines, acc) ==
  IF lines = <<>> THEN Ok(acc)
  ELSE CASE Head(lines).k = "io_err" ->
              Err("Could not read a line in the GFA. cause of failure: "
                  \o Head(lines).e)
         [] Head(lines).k = "blank" -> lines_to_nuon(Tail(lines), acc)
         [] Head(lines).k = "parse_err" ->
              Err("Could not stream input as binary. cause of failure: "
                  \o Head(lines).e)
         [] OTHER ->
              LET Push(v) ==
                    lines_to_nuon(Tail(lines),
                      [acc EXCEPT ![LineTarget(Head(lines))] = Append(@, v)])
              IN  AndThen(LineValue(Head(lines)), Push)

\* from_gfa_inner forgetting the paths field
GfaRecordWithoutPaths(c) ==
  Ok(VRecord(<<"header", "segments", "links", "containments">>,
             << IF c.header # <<>> THEN c.header[1] ELSE with_string("No header"),
                VList(c.segments), VList(c.links), VList(c.containments) >>))

\* from_gfa_inner taking the header field from the last header line
GfaRecordLastHeader(c) ==
  Ok(VRecord(<<"header", "segments", "links", "containments", "paths">>,
             << IF c.header # <<>> THEN c.header[Len(c.header)]
                ELSE with_string("No header"),
                VList(c.segments), VList(c.links), VList(c.containments),
                VList(c.paths) >>))

\* from_gfa_inner putting the sentinel in the header field whatever was read
GfaRecordNoHeader(c) ==
  Ok(VRecord(<<"header", "segments", "links", "containments", "paths">>,
             << with_string("No header"),
                VList(c.segments), VList(c.links), VList(c.containments),
                VList(c.paths) >>))

\* the record from_gfa_inner builds from the five collections
GfaRecord(c) ==
  Ok(VRecord(<<"header", "segments", "links", "containments", "paths">>,
             << IF c.header # <<>> THEN c.header[1] ELSE with_string("No header"),
                VList(c.segments), VList(c.links), VList(c.containments),
                VList(c.paths) >>))

from_gfa_inner(inp, compression) ==
  IF ~IsBytesInput(inp)
  THEN Err("Input must be binary or string data")
  ELSE AndThen(lines_to_nuon(inp.dec.lines, EmptyCollections), GfaRecord)

-----------------------------------------------------------------------------
(* bio.rs: the methods of Bio, one per command. *)

\* Result<Vec<Value>>::map(|e| Value::list(e))
ListResult(res) == IF res.kind = "ok" THEN Ok(VList(res.value)) ELSE res

Bio_from_fasta(inp, compression, fl) ==
  ListResult(from_fasta_inner(inp, compression, fl.description))

Bio_to_fasta(inp) == nuon_to_fasta(inp)

Bio_from_fastq(inp, compression, fl) ==
  ListResult(from_fastq_inner(inp, compression, fl.description, fl.quality_scores))

Bio_to_fastq(inp) == nuon_to_fastq(inp)

Bio_from_bam(inp) == from_bam_inner(inp)

Bio_from_sam(inp) == from_sam_inner(inp)

Bio_from_cram(inp) == from_cram_inner(inp)

Bio_from_bcf(inp, compression) == from_bcf_inner(inp, compression)

Bio_from_vcf(inp, compression) == from_vcf_inner(inp, compression)

Bio_from_gff(inp) == ListResult(from_gff_inner(inp))

Bio_from_gfa(inp, compression) == from_gfa_inner(inp, compression)

Bio_from_bed(inp) == ListResult(from_bed_inner(inp))


-----------------------------------------------------------------------------
(* The inputs of the model: what the external decoders yield. *)

SeqsUpTo(S, n) == UNION {[1..k -> S] : k \in 0..n}

RecordError == "invalid record"

HeaderError == "invalid header"

\* values that are neither binary nor string
OtherInputs == {VInt(1), VNothing, VList(<<>>)}

BytesInputs(decs) ==
  {[type |-> t, dec |-> d] : t \in {"binary", "string"}, d \in decs}

(* sequence formats *)
\* a sequence one base longer than a line of the FASTA writer
LongSequence == [i \in 1..81 |-> "A"]

FastaRecs ==
  { [name |-> <<"r">>, description |-> Some(<<"d">>), sequence |-> <<"A", "C">>],
    [name |-> <<"s">>, description |-> None, sequence |-> <<"G">>],
    [name |-> <<"t">>, description |-> Some(<<"d", " ", "e">>),
     sequence |-> LongSequence] }

FastqRecs ==
  { [name |-> <<"r">>, description |-> <<"d">>, sequence |-> <<"A", "C">>,
     quality_scores |-> <<"!", "#">>],
    [name |-> <<"s">>, description |-> <<>>, sequence |-> <<"G">>,
     quality_scores |-> <<"!">>],
    [name |-> <<"t">>, description |-> <<"d", " ", "e">>, sequence |-> <<"T">>,
     quality_scores |-> <<"@">>] }

Items(recs) == {ROk(r) : r \in recs} \cup {RErr(RecordError)}

SequenceDecs(recs) == {[records |-> rs] : rs \in SeqsUpTo(Items(recs), MaxRecords)}

(* alignment formats *)
EmptySamHeader ==
  [hd |-> None, reference_sequences |-> <<>>, read_groups |-> <<>>,
   comments |-> <<>>]

FullSamHeader ==
  [hd |-> Some("1.4"),
   reference_sequences |-> <<[name |-> "chr1", length |-> 1000]>>,
   read_groups |-> <<"rg0">>, comments |-> <<"made by hand">>]

MappedRecord ==
  [name |-> Some(Bytes("read1", TRUE)), flags |-> ROk(99),
   mapping_quality |-> Some(ROk(60)), reference_sequence_id |-> Some(ROk(0)),
   alignment_start |-> Some(ROk(100)), cigar_len |-> 1, sequence_len |-> 4,
   quality_len |-> 4, mate_reference_sequence_id |-> Some(ROk(0)),
   mate_alignment_start |-> Some(ROk(200)), template_length |-> ROk(150),
   data |-> <<ROk([tag |-> <<"N", "M">>, ty |-> "Int32", repr |-> <<"1">>])>>]

UnmappedRecord ==
  [name |-> None, flags |-> ROk(4), mapping_quality |-> None,
   reference_sequence_id |-> None, alignment_start |-> None, cigar_len |-> 0,
   sequence_len |-> 0, quality_len |-> 0, mate_reference_sequence_id |-> None,
   mate_alignment_start |-> None, template_length |-> ROk(0), data |-> <<>>]

\* the mapped record with a second auxiliary field that fails to decode
BadFieldRecord ==
  [MappedRecord EXCEPT !.data = Append(@, RErr("invalid field"))]

\* a record every lazily decoded field of which fails to decode
DegradedRecord ==
  [name |-> None, flags |-> RErr("invalid field"),
   mapping_quality |-> Some(RErr("invalid field")),
   reference_sequence_id |-> Some(RErr("invalid field")),
   alignment_start |-> Some(RErr("invalid field")), cigar_len |-> 0,
   sequence_len |-> 0, quality_len |-> 0,
   mate_reference_sequence_id |-> Some(RErr("invalid field")),
   mate_alignment_start |-> Some(RErr("invalid field")),
   template_length |-> RErr("invalid field"),
   data |-> <<RErr("invalid field")>>]

\* the last record is the mapped record with a read name that is no valid UTF-8
AlnRecs ==
  { MappedRecord, UnmappedRecord, BadFieldRecord, DegradedRecord,
    [MappedRecord EXCEPT !.name = Some(Bytes("re?d1", FALSE))] }

AlignmentDecs(items) ==
  {[header |-> ROk(h), records |-> rs] :
     h \in { EmptySamHeader, FullSamHeader,
              [EmptySamHeader EXCEPT !.read_groups = <<"rg0", "rg1">>] },
     rs \in SeqsUpTo(items, MaxRecords)}
  \cup {[header |-> RErr(HeaderError), records |-> <<>>]}

CramItems == Items(AlnRecs) \cup {[k |-> "panic"]}

CramDecs ==
  {[file_definition |-> ROk("CRAM"), header |-> d.header, records |-> d.records] :
     d \in AlignmentDecs(CramItems)}
  \cup {[file_definition |-> RErr("invalid magic number"),
         header |-> RErr(HeaderError), records |-> <<>>]}

(* variant formats *)
VcfHeader ==
  [file_format |-> "FileFormat { major: 4, minor: 3 }",
   infos |-> <<[key |-> "DP", number |-> "Count(1)", ty |-> "Integer",
                description |-> "\"depth\""]>>,
   filters |-> <<[key |-> "PASS", description |-> "\"passed\""]>>,
   formats |-> <<[key |-> "GT", number |-> "Count(1)", ty |-> "String",
                  description |-> "\"genotype\""]>>,
   alternative_alleles |-> <<>>,
   contigs |-> <<[key |-> "chr1", length |-> Some(1000),
                  other_fields |-> <<[key |-> "md5", value |-> "abc"]>>]>>,
   sample_names |-> <<"s1">>]

VariantRecs == {[chrom |-> "chr1", pos |-> 10], [chrom |-> "chr1", pos |-> 20]}

VariantDecs ==
  {[header |-> ROk(VcfHeader), records |-> rs] :
     rs \in SeqsUpTo(Items(VariantRecs), MaxRecords)}
  \cup {[header |-> RErr(HeaderError), records |-> <<>>]}

(* graph format *)
GoodTag == Bytes("LN", TRUE)

GfaLines ==
  { [k |-> "blank"],
    [k |-> "io_err", e |-> "stream did not contain valid data"],
    [k |-> "parse_err", e |-> "unknown line type"],
    [k |-> "H", version |-> Some(Bytes("1.0", TRUE)), optional |-> <<>>],
    [k |-> "H", version |-> None, optional |-> <<>>],
    [k |-> "H", version |-> Some(Bytes("2.0", TRUE)),
     optional |-> <<[tag |-> GoodTag, value |-> [ty |-> "Int", int |-> 4]]>>],
    [k |-> "S", name |-> Bytes("s1", TRUE), sequence |-> Bytes("ACGT", TRUE),
     optional |-> <<[tag |-> GoodTag, value |-> [ty |-> "Int", int |-> 4]]>>],
    [k |-> "S", name |-> Bytes("s?", FALSE), sequence |-> Bytes("ACGT", TRUE),
     optional |-> <<>>],
    [k |-> "S", name |-> Bytes("s2", TRUE), sequence |-> Bytes("GG", TRUE),
     optional |-> <<>>],
    [k |-> "L", from_segment |-> Bytes("s1", TRUE), from_orient |-> "+",
     to_segment |-> Bytes("s2", TRUE), to_orient |-> "-",
     overlap |-> Bytes("4M", TRUE), optional |-> <<>>],
    [k |-> "C", container_name |-> Bytes("s1", TRUE), container_orient |-> "+",
     contained_name |-> Bytes("s2", TRUE), contained_orient |-> "+",
     pos |-> 2, overlap |-> Bytes("2M", TRUE), optional |-> <<>>],
    [k |-> "P", path_name |-> Bytes("p1", TRUE),
     segment_names |-> Bytes("s1+,s2-", TRUE), overlaps |-> <<Some("4M"), None>>,
     optional |-> <<>>] }

GfaDecs == {[lines |-> ls] : ls \in SeqsUpTo(GfaLines, MaxRecords)}

(* annotation and interval formats: the decoders are never run *)
StubDecs == {[records |-> rs] : rs \in SeqsUpTo({ROk("feature")}, MaxRecords)}

(* reverse mappers *)
TableRows ==
  { VRecord(<<"id", "sequence">>, <<VText(<<"r">>), VText(<<"A">>)>>),
    VRecord(<<"id", "description", "sequence">>,
            <<VText(<<"s">>), VText(<<"d">>), VText(<<"C">>)>>),
    VRecord(<<"id", "quality_scores", "sequence">>,
            <<VText(<<"r">>), VText(<<"!">>), VText(<<"A">>)>>),
    VRecord(<<"id", "description", "quality_scores", "sequence">>,
            <<VText(<<"s">>), VText(<<"d">>), VText(<<"#">>), VText(<<"C">>)>>),
    VRecord(<<"id", "quality_scores", "description", "sequence">>,
            <<VText(<<"s">>), VText(<<"#">>), VText(<<"d">>), VText(<<"C">>)>>),
    VRecord(<<>>, <<>>),
    VRecord(<<"id", "sequence">>, <<VInt(1), VText(<<"A">>)>>),
    VRecord(<<"id", "sequence">>, <<VText(<<"r">>), VInt(2)>>),
    VInt(7) }

ReverseInputs ==
  {VList(rows) : rows \in SeqsUpTo(TableRows, MaxList)} \cup {VInt(1), VNothing}

-----------------------------------------------------------------------------
(* nu/mod.rs: the commands of the plugin. *)

FastaCommands == {"from fasta", "from fasta.gz", "from fa", "from fa.gz"}

FastqCommands == {"from fastq", "from fastq.gz", "from fq", "from fq.gz"}

BcfCommands == {"from bcf", "from bcf.gz"}

VcfCommands == {"from vcf", "from vcf.gz"}

GfaCommands == {"from gfa", "from gfa.gz"}

Commands ==
  FastaCommands \cup FastqCommands \cup BcfCommands \cup VcfCommands
  \cup GfaCommands
  \cup {"to fasta", "to fastq", "from bam", "from sam", "from cram",
        "from gff", "from bed"}

\* the Compression each command's run passes to Bio
CompressionOf(c) ==
  IF c \in {"from fasta.gz", "from fa.gz", "from fastq.gz", "from fq.gz",
            "from bcf.gz", "from vcf.gz", "from gfa.gz"}
  THEN "Gzipped" ELSE "Uncompressed"

NoFlags == [description |-> FALSE, quality_scores |-> FALSE]

\* the switches the signature of a command declares
FlagsOf(c) ==
  CASE c \in FastaCommands ->
         {[description |-> d, quality_scores |-> FALSE] : d \in BOOLEAN}
    [] c \in FastqCommands ->
         {[description |-> d, quality_scores |-> q] : d \in BOOLEAN, q \in BOOLEAN}
    [] OTHER -> {NoFlags}

InputsOf(c) ==
  CASE c \in FastaCommands -> BytesInputs(SequenceDecs(FastaRecs)) \cup OtherInputs
    [] c \in FastqCommands -> BytesInputs(SequenceDecs(FastqRecs)) \cup OtherInputs
    [] c \in {"from bam", "from sam"} ->
         BytesInputs(AlignmentDecs(Items(AlnRecs))) \cup OtherInputs
    [] c = "from cram" -> BytesInputs(CramDecs) \cup OtherInputs
    [] c \in BcfCommands \cup VcfCommands ->
         BytesInputs(VariantDecs) \cup OtherInputs
    [] c \in GfaCommands -> BytesInputs(GfaDecs) \cup OtherInputs
    [] c \in {"from gff", "from bed"} -> BytesInputs(StubDecs) \cup OtherInputs
    [] OTHER -> ReverseInputs

Init ==
  /\ pc = "call"
  /\ outcome = NoOutcome
  /\ served = 0
  /\ cmd \in Commands
  /\ flags \in FlagsOf(cmd)
  /\ input \in InputsOf(cmd)

\* the run handler of each command: one call of the Bio method, whose
\* result is the outcome of the invocation
FromFasta ==
  /\ pc = "call"
  /\ cmd \in FastaCommands
  /\ outcome' = Bio_from_fasta(input, CompressionOf(cmd), flags)
  /\ pc' = "done"
  /\ served' = served + 1
  /\ UNCHANGED <<cmd, flags, input>>

FromFastq ==
  /\ pc = "call"
  /\ cmd \in FastqCommands
  /\ outcome' = Bio_from_fastq(input, CompressionOf(cmd), flags)
  /\ pc' = "done"
  /\ served' = served + 1
  /\ UNCHANGED <<cmd, flags, input>>

ToFasta ==
  /\ pc = "call"
  /\ cmd \in {"to fasta"}
  /\ outcome' = Bio_to_fasta(input)
  /\ pc' = "done"
  /\ served' = served + 1
  /\ UNCHANGED <<cmd, flags, input>>

ToFastq ==
  /\ pc = "call"
  /\ cmd \in {"to fastq"}
  /\ outcome' = Bio_to_fastq(input)
  /\ pc' = "done"
  /\ served' = served + 1
  /\ UNCHANGED <<cmd, flags, input>>

FromBam ==
  /\ pc = "call"
  /\ cmd \in {"from bam"}
  /\ outcome' = Bio_from_bam(input)
  /\ pc' = "done"
  /\ served' = served + 1
  /\ UNCHANGED <<cmd, flags, input>>

FromSam ==
  /\ pc = "call"
  /\ cmd \in {"from sam"}
  /\ outcome' = Bio_from_sam(input)
  /\ pc' = "done"
  /\ served' = served + 1
  /\ UNCHANGED <<cmd, flags, input>>

FromCram ==
  /\ pc = "call"
  /\ cmd \in {"from cram"}
  /\ outcome' = Bio_from_cram(input)
  /\ pc' = "done"
  /\ served' = served + 1
  /\ UNCHANGED <<cmd, flags, input>>

FromBcf ==
  /\ pc = "call"
  /\ cmd \in BcfCommands
  /\ outcome' = Bio_from_bcf(input, CompressionOf(cmd))
  /\ pc' = "done"
  /\ served' = served + 1
  /\ UNCHANGED <<cmd, flags, input>>

FromVcf ==
  /\ pc = "call"
  /\ cmd \in VcfCommands
  /\ outcome' = Bio_from_vcf(input, CompressionOf(cmd))
  /\ pc' = "done"
  /\ served' = served + 1
  /\ UNCHANGED <<cmd, flags, input>>

FromGff ==
  /\ pc = "call"
  /\ cmd \in {"from gff"}
  /\ outcome' = Bio_from_gff(input)
  /\ pc' = "done"
  /\ served' = served + 1
  /\ UNCHANGED <<cmd, flags, input>>

FromGfa ==
  /\ pc = "call"
  /\ cmd \in GfaCommands
  /\ outcome' = Bio_from_gfa(input, CompressionOf(cmd))
  /\ pc' = "done"
  /\ served' = served + 1
  /\ UNCHANGED <<cmd, flags, input>>

\* the handler of from bed answering from the previous result when one is left
FromBedCached ==
  /\ pc = "call"
  /\ cmd \in {"from bed"}
  /\ outcome' = (IF outcome.kind = "ok" THEN outcome ELSE Bio_from_bed(input))
  /\ pc' = "done"
  /\ served' = served + 1
  /\ UNCHANGED <<cmd, flags, input>>

FromBed ==
  /\ pc = "call"
  /\ cmd \in {"from bed"}
  /\ outcome' = Bio_from_bed(input)
  /\ pc' = "done"
  /\ served' = served + 1
  /\ UNCHANGED <<cmd, flags, input>>

Next ==
  \/ FromFasta
  \/ FromFastq
  \/ ToFasta
  \/ ToFastq
  \/ FromBam
  \/ FromSam
  \/ FromCram
  \/ FromBcf
  \/ FromVcf
  \/ FromGff
  \/ FromGfa
  \/ FromBed

Spec == Init /\ [][Next]_vars


-----------------------------------------------------------------------------
(* Vocabulary of the properties. *)

Done == pc = "done"

Succeeded == Done /\ outcome.kind = "ok"

ReadCommands == Commands \ {"to fasta", "to fastq"}

HeaderCommands ==
  {"from bam", "from sam", "from cram"} \cup VcfCommands \cup BcfCommands

\* the value of the column of a record value
Column(rec, name) ==
  rec.vals[CHOOSE i \in 1..Len(rec.cols) : rec.cols[i] = name]

\* the body list of a successful result: the bare list of the sequence
\* formats, the body column of the others
Body(v) == IF v.type = "list" THEN v.items ELSE Column(v, "body").items

\* the texts that wrap a decoder's message in an error of the adapters
OperationPrefixes ==
  { "Record reading failed. cause of failure: ",
    "Could not read header. error reading header at ",
    "Unable to parse SAM header: ",
    "Could not read CRAM file definition. cause of failure: ",
    "CRAM file header reading failed. cause of failure: ",
    "Could not read header. header unreadable due to ",
    "Failed to read raw VCF header. cause of failure: ",
    "Could not read a line in the GFA. cause of failure: ",
    "Could not stream input as binary. cause of failure: " }

\* o is an error that carries the decoder's message e, wrapped
Carries(o, e) ==
  o.kind = "err" /\ \E p \in OperationPrefixes : o.msg = p \o e

\* o is the error an adapter returns for an input of the wrong type
InputTypeError(o, inp) ==
  /\ o.kind = "err"
  /\ o.msg \in { "Input must be binary or string data",
                 "Input must be binary or string data, got " \o get_type(inp),
                 "Input should be binary. requires binary input, got "
                   \o get_type(inp) }

\* the command ran on bytes whose header (if the format has one) decoded
Decoding ==
  /\ Done
  /\ cmd \in ReadCommands
  /\ IsBytesInput(input)
  /\ cmd \in BcfCommands => input.type = "binary"

HeaderDecoded ==
  /\ Decoding
  /\ cmd \in HeaderCommands => input.dec.header.k = "ok"

\* the number of items before the first one that is no decoded record
RECURSIVE DecodedBeforeFault(_)
DecodedBeforeFault(items) ==
  IF items = <<>> \/ Head(items).k # "ok" THEN 0
  ELSE 1 + DecodedBeforeFault(Tail(items))

HasFault(items) == DecodedBeforeFault(items) < Len(items)

FirstFault(items) == items[DecodedBeforeFault(items) + 1]

-----------------------------------------------------------------------------
(* C1: every variant record that the VCF or BCF adapter places in the body *)
(* has exactly the ten columns chrom, pos, rlen, qual, id, ref, alt,       *)
(* filter, info, genotypes, in that order; no body record is empty or      *)
(* partial.                                                                *)
C1_VariantRecordsHaveTenColumns ==
  (Succeeded /\ cmd \in VcfCommands \cup BcfCommands) =>
    \A i \in 1..Len(Body(outcome.value)) :
      /\ Body(outcome.value)[i].cols = VCF_COLUMNS
      /\ Len(Body(outcome.value)[i].vals) = Len(VCF_COLUMNS)

(* C2: when CRAM record iteration hits its first fault (an error item or a *)
(* panic) after k records were decoded, from_cram returns a successful     *)
(* result with the header, a body of exactly those k records in decoding   *)
(* order, and a note field; the fault is never propagated as an error.     *)
C2_CramFaultKeepsRecordsAndNote ==
  (HeaderDecoded /\ cmd = "from cram" /\ HasFault(input.dec.records)) =>
    LET k == DecodedBeforeFault(input.dec.records)
        header == input.dec.header.v
    IN  /\ outcome.kind = "ok"
        /\ Column(outcome.value, "header") = bam_parse_header(header)
        /\ Body(outcome.value) =
             [j \in 1..k |-> AlignmentRecord(input.dec.records[j].v, header)]
        /\ Contains(outcome.value.cols, "note")

(* C3: in the VCF and BCF adapters, when the decoder yields an error for a *)
(* record, the invocation returns an error value that carries the          *)
(* decoder's message wrapped with the failed operation; no header or body  *)
(* is returned and the invocation does not crash.                          *)
C3_VariantRecordErrorIsReturned ==
  (HeaderDecoded /\ cmd \in VcfCommands \cup BcfCommands
     /\ HasFault(input.dec.records)) =>
    Carries(outcome, FirstFault(input.dec.records).e)

(* C4: for every format that has a header (BAM, SAM, CRAM, VCF, BCF, in    *)
(* every compression mode), when the decoder's header read fails the       *)
(* invocation returns an error value carrying the decoder's message, and   *)
(* never a result.                                                         *)
C4_HeaderErrorIsReturned ==
  (Decoding /\ cmd \in HeaderCommands /\ input.dec.header.k = "err"
     /\ (cmd = "from cram" => input.dec.file_definition.k = "ok")) =>
    Carries(outcome, input.dec.header.e)


(* C5: the top-level shape of a successful result depends on the format    *)
(* alone: the alignment (BAM, SAM, CRAM), variant (VCF, BCF) and graph     *)
(* (GFA) adapters return a record whose fields are exactly header and      *)
(* body, the sequence, annotation and interval adapters a bare list.       *)
C5_ShapeIsHeaderBodyOrList ==
  (Succeeded /\ cmd \in ReadCommands) =>
    IF cmd \in HeaderCommands \cup GfaCommands
    THEN /\ outcome.value.type = "record"
         /\ outcome.value.cols = <<"header", "body">>
    ELSE outcome.value.type = "list"

(* C5, amended: BAM, SAM, VCF and BCF return a record whose fields are     *)
(* exactly header and body; CRAM returns header and body, followed by a    *)
(* note exactly when record decoding panicked; GFA returns a record whose  *)
(* fields are exactly header, segments, links, containments, paths; the    *)
(* sequence, annotation and interval adapters return a bare list.          *)
C5_ShapePerFormat ==
  (Succeeded /\ cmd \in ReadCommands) =>
    CASE cmd \in GfaCommands ->
           /\ outcome.value.type = "record"
           /\ outcome.value.cols =
                <<"header", "segments", "links", "containments", "paths">>
      [] cmd = "from cram" ->
           /\ outcome.value.type = "record"
           /\ outcome.value.cols =
                IF /\ HasFault(input.dec.records)
                   /\ FirstFault(input.dec.records).k = "panic"
                THEN <<"header", "body", "note">>
                ELSE <<"header", "body">>
      [] cmd \in HeaderCommands ->
           /\ outcome.value.type = "record"
           /\ outcome.value.cols = <<"header", "body">>
      [] OTHER -> outcome.value.type = "list"

\* a graph with a path line was parsed
C5_Witness ==
  /\ Succeeded
  /\ cmd \in GfaCommands
  /\ Column(outcome.value, "paths").items # <<>>

(* C6: for both reverse mappers an empty list yields a successful result   *)
(* whose text is the empty string, never an error.                         *)
C6_EmptyListGivesEmptyText ==
  (Done /\ cmd \in {"to fasta", "to fastq"} /\ input = VList(<<>>)) =>
    outcome = Ok(VText(<<>>))

(* C6, amended: to fasta of an empty list yields a successful result whose *)
(* text is the empty string; to fastq of an empty list returns the error   *)
(* that there was no first value, and no text.                             *)
C6_EmptyListPerMapper ==
  (Done /\ cmd \in {"to fasta", "to fastq"} /\ input = VList(<<>>)) =>
    IF cmd = "to fasta"
    THEN outcome = Ok(VText(<<>>))
    ELSE outcome =
           Err("No value: There was no first value to call 'to fastq' on")

C6_Witness ==
  /\ Done
  /\ cmd = "to fastq"
  /\ input = VList(<<>>)
  /\ outcome.kind = "err"

(* C7: every read-path adapter accepts an input tagged Binary or String    *)
(* and returns an input-type error for every other kind of value.          *)
C7_BinaryOrStringAccepted ==
  (Done /\ cmd \in ReadCommands) =>
    (InputTypeError(outcome, input) <=> ~IsBytesInput(input))

(* C7, amended: every read-path adapter other than BCF accepts an input    *)
(* tagged Binary or String; the BCF adapter accepts Binary only; each      *)
(* returns an input-type error for every kind of value it does not accept, *)
(* whatever the decoder would have made of the input.                      *)
C7_AcceptedInputTypes ==
  (Done /\ cmd \in ReadCommands) =>
    (InputTypeError(outcome, input) <=>
       IF cmd \in BcfCommands THEN input.type # "binary"
       ELSE ~IsBytesInput(input))

\* a BCF command refused text whose header would not have decoded
C7_Witness ==
  /\ Done
  /\ cmd \in BcfCommands
  /\ input.type = "string"
  /\ input.dec.header.k = "err"
  /\ InputTypeError(outcome, input)


\* the outcome of one invocation of command c with switches fl on inp
Invocation(c, fl, inp) ==
  CASE c \in FastaCommands -> Bio_from_fasta(inp, CompressionOf(c), fl)
    [] c \in FastqCommands -> Bio_from_fastq(inp, CompressionOf(c), fl)
    [] c = "to fasta" -> Bio_to_fasta(inp)
    [] c = "to fastq" -> Bio_to_fastq(inp)
    [] c = "from bam" -> Bio_from_bam(inp)
    [] c = "from sam" -> Bio_from_sam(inp)
    [] c = "from cram" -> Bio_from_cram(inp)
    [] c \in BcfCommands -> Bio_from_bcf(inp, CompressionOf(c))
    [] c \in VcfCommands -> Bio_from_vcf(inp, CompressionOf(c))
    [] c = "from gff" -> Bio_from_gff(inp)
    [] c \in GfaCommands -> Bio_from_gfa(inp, CompressionOf(c))
    [] OTHER -> Bio_from_bed(inp)

AlignmentCommands == {"from bam", "from sam", "from cram"}

StubCommands == {"from gff", "from bed"}

BodyCommands == ReadCommands \ (GfaCommands \cup StubCommands)

\* an auxiliary field of the alignment record failed to decode
BadField(r) == \E i \in 1..Len(r.data) : r.data[i].k = "err"

\* the decoder reports an error on a record the loop of c reads: the
\* first fault is an error item, or a record read before it has a field
\* that fails to decode
RecordErrorMet(c, items) ==
  \/ /\ HasFault(items)
     /\ FirstFault(items).k = "err"
  \/ /\ c \in AlignmentCommands
     /\ \E j \in 1..DecodedBeforeFault(items) : BadField(items[j].v)

\* the decoder reports an error on a line of the graph that the parse reaches
LineErrorMet(lines) ==
  \E i \in 1..Len(lines) :
    /\ lines[i].k \in {"io_err", "parse_err"}
    /\ lines_to_nuon(SubSeq(lines, 1, i - 1), EmptyCollections).kind = "ok"

\* the decoder reports an error during the invocation of c on dec
DecoderErrorMet(c, dec) ==
  CASE c \in GfaCommands -> LineErrorMet(dec.lines)
    [] c = "from cram" ->
         \/ dec.file_definition.k = "err"
         \/ dec.header.k = "err"
         \/ RecordErrorMet(c, dec.records)
    [] c \in HeaderCommands ->
         \/ dec.header.k = "err"
         \/ RecordErrorMet(c, dec.records)
    [] OTHER -> RecordErrorMet(c, dec.records)

\* an input on which the decoder of c reports nothing but what it decoded
ErrorFree(c, inp) ==
  /\ IsBytesInput(inp)
  /\ CASE c \in GfaCommands ->
            \A i \in 1..Len(inp.dec.lines) :
              inp.dec.lines[i].k \notin {"io_err", "parse_err"}
       [] OTHER ->
            /\ c \in HeaderCommands => inp.dec.header.k = "ok"
            /\ c = "from cram" => inp.dec.file_definition.k = "ok"
            /\ \A i \in 1..Len(inp.dec.records) :
                 /\ inp.dec.records[i].k = "ok"
                 /\ c \in AlignmentCommands => ~BadField(inp.dec.records[i].v)

\* the columns of a record whose names are among names, paired with their values
RECURSIVE Kept(_, _, _)
Kept(cols, vals, names) ==
  IF cols = <<>> THEN <<>>
  ELSE (IF Contains(names, Head(cols)) THEN <<<<Head(cols), Head(vals)>>>> ELSE <<>>)
       \o Kept(Tail(cols), Tail(vals), names)

\* the record el without the columns that are not among names
KeepColumns(el, names) ==
  LET kept == Kept(el.cols, el.vals, names)
  IN  VRecord([i \in 1..Len(kept) |-> kept[i][1]], [i \in 1..Len(kept) |-> kept[i][2]])

\* the list where every record has only the columns of the first record
FirstShapeOnly(list) ==
  [i \in 1..Len(list) |-> KeepColumns(list[i], list[1].cols)]

\* a list of two or more records
TableOfRecords(v) ==
  /\ v.type = "list"
  /\ Len(v.items) >= 2
  /\ \A i \in 1..Len(v.items) : v.items[i].type = "record"

-----------------------------------------------------------------------------
(* C8: for every adapter other than the GFF and BED stubs, every error the *)
(* decoder reports during an invocation (header error, record error, error *)
(* on one auxiliary field) is either returned as the error of the          *)
(* invocation or visible in the successful result; no decoder error        *)
(* disappears leaving a result that an error-free input also produces.     *)
C8_NoDecoderErrorDisappears ==
  (Decoding /\ cmd \notin StubCommands /\ DecoderErrorMet(cmd, input.dec)) =>
    \/ outcome.kind = "err"
    \/ /\ outcome.kind = "ok"
       /\ \A i \in InputsOf(cmd) :
            ErrorFree(cmd, i) => outcome # Invocation(cmd, flags, i)

(* C9: for every adapter that returns a body (FASTA, FASTQ, BAM, SAM,      *)
(* CRAM, VCF, BCF), on a successful return the length of the body equals   *)
(* the number of records the decoder yielded successfully; for CRAM, the   *)
(* number of records decoded before the first fault, whatever its kind.    *)
C9_BodyLengthIsDecodedCount ==
  (Succeeded /\ cmd \in BodyCommands) =>
    Len(Body(outcome.value)) = DecodedBeforeFault(input.dec.records)

(* C10: both reverse mappers take the active optional columns from the     *)
(* column names of the first record only and apply that shape to every     *)
(* later record: a column of a later record that the first record does not *)
(* have never contributes to the text, so the text is the one written for  *)
(* the list whose records carry the columns of the first record only.      *)
C10_LaterColumnsOutsideShapeIgnored ==
  (Succeeded /\ cmd \in {"to fasta", "to fastq"} /\ TableOfRecords(input)) =>
    outcome = Invocation(cmd, flags, VList(FirstShapeOnly(input.items)))


-----------------------------------------------------------------------------
\* the error of to fastq for a table without quality scores
NoQualityScores ==
  Err("No quality scores: Consider using 'to fasta' if you don't have any quality scores, or pass the -q option on a fastq")

\* a non-empty list whose first element is a record without the column name
FirstRecordLacks(v, name) ==
  /\ v.type = "list"
  /\ v.items # <<>>
  /\ v.items[1].type = "record"
  /\ ~Contains(v.items[1].cols, name)

(* C11: to fastq applied to a non-empty list whose first record has no     *)
(* column named quality_scores returns the dedicated 'No quality scores'   *)
(* error that points to to fasta (or to -q), emits no text, and does so    *)
(* whatever the later records contain.                                     *)
C11_NoQualityScoresError ==
  (Done /\ cmd = "to fastq" /\ FirstRecordLacks(input, "quality_scores")) =>
    outcome = NoQualityScores

\* the error was returned although a later element is no record, or is a
\* record that alone would make the writer fail or panic
C11_Witness ==
  /\ Done
  /\ cmd = "to fastq"
  /\ FirstRecordLacks(input, "quality_scores")
  /\ Len(input.items) >= 2
  /\ FastaElement(input.items[2]).kind # "ok"
  /\ outcome = NoQualityScores


-----------------------------------------------------------------------------
SequenceCommands == FastaCommands \cup FastqCommands

\* the reverse mapper that matches a forward mapper of a sequence format
ReverseOf(c) == IF c \in FastaCommands THEN "to fasta" ELSE "to fastq"

\* the text of a reverse mapper as the input of the uncompressed forward
\* mapper of the same format: what the reader of the format yields on it
TextInput(c, text) ==
  [type |-> "string",
   dec |-> [records |->
     IF c \in FastaCommands
     THEN fasta_reader_records(SplitLines(text.chars), <<>>)
     ELSE fastq_reader_records(SplitLines(text.chars), <<>>)]]

\* the list parsed again from the text written for it, under the same flags
ParsedAgain(c, fl, text) ==
  IF text.kind # "ok" THEN text
  ELSE Invocation(IF c \in FastaCommands THEN "from fasta" ELSE "from fastq",
                  fl, TextInput(c, text.value))

\* a forward mapper of a sequence format produced a list the matching
\* reverse mapper is meant for: any FASTA list, a FASTQ list with qualities
ForwardProduced ==
  /\ Succeeded
  /\ cmd \in SequenceCommands
  /\ cmd \in FastqCommands => flags.quality_scores

(* C12: round trip for sequence formats: every list that a forward mapper  *)
(* can produce (from fasta with or without description; from fastq with    *)
(* quality scores, with or without description), written by the matching   *)
(* reverse mapper and parsed again with the same flags, is the same list:  *)
(* same length, same identifier, sequence, description and quality.        *)
C12_SequenceRoundTrip ==
  ForwardProduced =>
    ParsedAgain(cmd, flags, Invocation(ReverseOf(cmd), NoFlags, outcome.value))
      = outcome

(* C12, amended: the round trip holds for every list a FASTA forward       *)
(* mapper can produce and for every non-empty list a FASTQ forward mapper  *)
(* with quality scores can produce; for the empty list to fastq returns    *)
(* the error that there was no first value and there is no text to parse.  *)
C12_SequenceRoundTripNonEmpty ==
  ForwardProduced =>
    ParsedAgain(cmd, flags, Invocation(ReverseOf(cmd), NoFlags, outcome.value))
      = IF cmd \in FastqCommands /\ outcome.value.items = <<>>
        THEN Err("No value: There was no first value to call 'to fastq' on")
        ELSE outcome

\* a FASTQ list with description and quality, and a FASTA list whose
\* sequence is longer than a line of the writer, went round
C12_Witness ==
  /\ ForwardProduced
  /\ \/ /\ cmd \in FastqCommands
        /\ flags.description
        /\ Len(outcome.value.items) >= 2
     \/ /\ cmd \in FastaCommands
        /\ \E i \in 1..Len(outcome.value.items) :
             Column(outcome.value.items[i], "sequence").chars = LongSequence
  /\ ParsedAgain(cmd, flags, Invocation(ReverseOf(cmd), NoFlags, outcome.value))
       = outcome


-----------------------------------------------------------------------------
\* the value of column name of an alignment record, as a string
Field(rec, name) == Column(rec, name).val

\* the characters of the data column of rec
DataChars(rec) == Column(rec, "data").chars

\* field x of a decoded record failed to decode
Failing(x) == x.k = "err" \/ (x.k = "some" /\ x.v.k = "err")

\* the auxiliary fields that decoded
DecodedFields(data) == SelectSeq(data, LAMBDA f : f.k = "ok")

\* every field of r that fails to decode shows as its placeholder in rec,
\* and the data column is the one of the fields that decoded
DegradesToPlaceholders(rec, r, header) ==
  /\ rec.cols = BAM_COLUMNS
  /\ Failing(r.flags) => Field(rec, "flags") = "0x0000"
  /\ Failing(r.mapping_quality) => Field(rec, "mapping_quality") = "*"
  /\ Failing(r.reference_sequence_id) => Field(rec, "reference_sequence_id") = "*"
  /\ Failing(r.alignment_start) => Field(rec, "alignment_start") = "0"
  /\ Failing(r.mate_reference_sequence_id) =>
       Field(rec, "mate_reference_sequence_id") = "*"
  /\ Failing(r.mate_alignment_start) => Field(rec, "mate_alignment_start") = "0"
  /\ Failing(r.template_length) => Field(rec, "template_length") = "0"
  /\ DataChars(rec) =
       DataChars(AlignmentRecord([r EXCEPT !.data = DecodedFields(@)], header))

\* the decoded records among the items
DecodedRecords(items) == SelectSeq(items, LAMBDA x : x.k = "ok")

(* C13: for BAM and SAM a decode error on one record does not abort the    *)
(* invocation: the parse continues, the affected data degrades to          *)
(* placeholders and the records that decode are returned in the body.      *)
C13_RecordErrorDoesNotAbort ==
  (HeaderDecoded /\ cmd \in {"from bam", "from sam"}) =>
    /\ outcome.kind = "ok"
    /\ Len(Body(outcome.value)) = Len(DecodedRecords(input.dec.records))
    /\ \A i \in 1..Len(DecodedRecords(input.dec.records)) :
         DegradesToPlaceholders(Body(outcome.value)[i],
                                DecodedRecords(input.dec.records)[i].v,
                                input.dec.header.v)

(* C13, amended: for BAM and SAM a decode error on one field of a record   *)
(* does not abort the invocation: the field degrades to its placeholder (a *)
(* failing auxiliary field is left out of the data column) and every       *)
(* record is returned in the body; an error that the decoder yields in     *)
(* place of a record aborts the invocation with the error 'Record reading  *)
(* failed' carrying the decoder's message, and no body is returned.        *)
C13_FieldErrorDegradesRecordErrorAborts ==
  (HeaderDecoded /\ cmd \in {"from bam", "from sam"}) =>
    IF HasFault(input.dec.records)
    THEN outcome = Err("Record reading failed. cause of failure: "
                       \o FirstFault(input.dec.records).e)
    ELSE /\ outcome.kind = "ok"
         /\ Len(Body(outcome.value)) = Len(input.dec.records)
         /\ \A i \in 1..Len(input.dec.records) :
              DegradesToPlaceholders(Body(outcome.value)[i],
                                     input.dec.records[i].v, input.dec.header.v)

\* a record whose fields all fail was returned next to another record
C13_Witness ==
  /\ HeaderDecoded
  /\ cmd \in {"from bam", "from sam"}
  /\ outcome.kind = "ok"
  /\ Len(input.dec.records) >= 2
  /\ input.dec.records[2].v = DegradedRecord
  /\ Field(Body(outcome.value)[2], "mapping_quality") = "*"
  /\ DataChars(Body(outcome.value)[2]) = <<>>


-----------------------------------------------------------------------------
(* The alignment record mapper on its own: one invocation of an alignment  *)
(* command on an input that holds a single record, the record drawn from   *)
(* every combination of present, absent and failing fields.                *)

\* what an accessor of the kind Option<io::Result<T>> can return
OptResults == {None, Some(ROk(7)), Some(RErr("invalid field"))}

\* what r.name() can return: no name, a name, a name that is no valid UTF-8
Names == {None, Some(Bytes("read1", TRUE)), Some(Bytes("re?d1", FALSE))}

\* the records without auxiliary fields, in every state of their fields
FieldRecords ==
  { [name |-> n, flags |-> f, mapping_quality |-> mq,
     reference_sequence_id |-> rs, alignment_start |-> st, cigar_len |-> l,
     sequence_len |-> l, quality_len |-> l, mate_reference_sequence_id |-> mr,
     mate_alignment_start |-> ms, template_length |-> t, data |-> <<>>] :
      n \in Names, f \in {ROk(99), RErr("invalid field")}, mq \in OptResults,
      rs \in OptResults, st \in OptResults, mr \in OptResults,
      ms \in OptResults, t \in {ROk(150), RErr("invalid field")}, l \in {0, 4} }

\* the values of auxiliary fields, one of every kind the decoder knows
AuxValues ==
  { [tag |-> <<"X", "A">>, ty |-> "Character", repr |-> <<"c">>],
    [tag |-> <<"N", "M">>, ty |-> "Int32", repr |-> <<"1">>],
    [tag |-> <<"X", "8">>, ty |-> "Int8", repr |-> <<"-", "3">>],
    [tag |-> <<"X", "U">>, ty |-> "UInt16", repr |-> <<"7">>],
    [tag |-> <<"X", "F">>, ty |-> "Float", repr |-> <<"0", ".", "5">>],
    [tag |-> <<"R", "G">>, ty |-> "String", repr |-> <<"g", "r", "p">>],
    [tag |-> <<"X", "H">>, ty |-> "Hex", repr |-> <<"1", "A", "E", "3">>],
    [tag |-> <<"X", "B">>, ty |-> "Array", subtype |-> "i",
     elems |-> << <<"1">>, <<"2">> >>] }

AuxItems == {ROk(v) : v \in AuxValues} \cup {RErr("invalid field")}

\* the mapped record with every sequence of auxiliary fields
DataRecords ==
  {[MappedRecord EXCEPT !.data = d] : d \in SeqsUpTo(AuxItems, MaxFields)}

\* the inputs that hold one record
RecordInputs(c) ==
  { [type |-> "binary",
     dec |-> IF c = "from cram"
             THEN [file_definition |-> ROk("CRAM"), header |-> ROk(FullSamHeader),
                   records |-> <<ROk(r)>>]
             ELSE [header |-> ROk(FullSamHeader), records |-> <<ROk(r)>>]] :
      r \in FieldRecords \cup DataRecords }

InitRecord ==
  /\ pc = "call"
  /\ outcome = NoOutcome
  /\ served = 0
  /\ cmd \in AlignmentCommands
  /\ flags = NoFlags
  /\ input \in RecordInputs(cmd)

NextRecord ==
  \/ FromBam
  \/ FromSam
  \/ FromCram

SpecRecord == InitRecord /\ [][NextRecord]_vars

\* an alignment command ran on an input all of whose records were decoded
RecordsMapped ==
  /\ HeaderDecoded
  /\ cmd \in AlignmentCommands
  /\ ~HasFault(input.dec.records)

\* field x of a decoded record is absent or failed to decode
Unset(x) == x.k = "none" \/ Failing(x)

\* rec has a string in each of the twelve columns, and the placeholders
\* of the fields of r that are unset
TotalWithPlaceholders(rec, r) ==
  /\ rec.cols = BAM_COLUMNS
  /\ Len(rec.vals) = Len(BAM_COLUMNS)
  /\ \A i \in 1..Len(rec.vals) : rec.vals[i].type = "string"
  /\ Unset(r.mapping_quality) => Field(rec, "mapping_quality") = "*"
  /\ Unset(r.reference_sequence_id) => Field(rec, "reference_sequence_id") = "*"
  /\ Unset(r.mate_reference_sequence_id) =>
       Field(rec, "mate_reference_sequence_id") = "*"
  /\ Unset(r.alignment_start) => Field(rec, "alignment_start") = "0"
  /\ Unset(r.mate_alignment_start) => Field(rec, "mate_alignment_start") = "0"

(* C14: the alignment record mapper is total: whatever subset of the       *)
(* fields of a decoded record is absent or fails to decode, the record is  *)
(* mapped to a value for each column and the invocation does not fail; an  *)
(* unset mapping quality renders as '*', an unmapped reference or mate     *)
(* reference index as '*', an unmapped alignment or mate start as '0'.     *)
C14_RecordMapperIsTotal ==
  RecordsMapped =>
    /\ outcome.kind = "ok"
    /\ Len(Body(outcome.value)) = Len(input.dec.records)
    /\ \A i \in 1..Len(input.dec.records) :
         TotalWithPlaceholders(Body(outcome.value)[i], input.dec.records[i].v)

\* a record with no field but the read name was mapped
C14_Witness ==
  /\ RecordsMapped
  /\ Len(input.dec.records) = 1
  /\ Unset(input.dec.records[1].v.flags)
  /\ Unset(input.dec.records[1].v.reference_sequence_id)
  /\ Unset(input.dec.records[1].v.mate_reference_sequence_id)
  /\ Unset(input.dec.records[1].v.mate_alignment_start)
  /\ Unset(input.dec.records[1].v.template_length)
  /\ input.dec.records[1].v.mapping_quality.k = "none"
  /\ input.dec.records[1].v.alignment_start.k = "some"
  /\ Field(Body(outcome.value)[1], "alignment_start") = "0"


(* C15: for every alignment record (BAM, SAM, CRAM) whose read name is     *)
(* absent, the read_name column of the output record is the placeholder    *)
(* string '*'.                                                             *)
C15_AbsentReadNameIsStar ==
  RecordsMapped =>
    \A i \in 1..Len(input.dec.records) :
      input.dec.records[i].v.name.k = "none" =>
        Field(Body(outcome.value)[i], "read_name") = "*"


\* every column of rec holds the value of the field of r of that name
NamedValues(rec, r) ==
  /\ r.name.k = "some" => Field(rec, "read_name") = from_utf8_lossy(r.name.v)
  /\ Field(rec, "flags") = FormatFlags(IF r.flags.k = "ok" THEN r.flags.v ELSE 0)
  /\ Field(rec, "reference_sequence_id") = OptResultOr(r.reference_sequence_id, "*")
  /\ Field(rec, "alignment_start") = OptResultOr(r.alignment_start, "0")
  /\ Field(rec, "mapping_quality") = OptResultOr(r.mapping_quality, "*")
  /\ Field(rec, "cigar") = "cigar_ops:" \o ToString(r.cigar_len)
  /\ Field(rec, "mate_reference_sequence_id") =
       OptResultOr(r.mate_reference_sequence_id, "*")
  /\ Field(rec, "mate_alignment_start") = OptResultOr(r.mate_alignment_start, "0")
  /\ Field(rec, "template_length") =
       (IF r.template_length.k = "ok" THEN ToString(r.template_length.v) ELSE "0")
  /\ Field(rec, "sequence") =
       (IF r.sequence_len > 0 THEN "sequence_length:" \o ToString(r.sequence_len)
        ELSE "*")
  /\ Field(rec, "quality_scores") = "quality_length:" \o ToString(r.quality_len)
  /\ DataChars(rec) = Join(RenderedFields(r.data), <<"\t">>)

TabPositions(cs) == {i \in 1..Len(cs) : cs[i] = "\t"}

\* the position of the k-th tab of cs; 0 before the first piece, and one
\* past the end after the last
TabAt(cs, k) ==
  IF k = 0 THEN 0
  ELSE IF k > Cardinality(TabPositions(cs)) THEN Len(cs) + 1
       ELSE CHOOSE i \in TabPositions(cs) :
              Cardinality({j \in TabPositions(cs) : j <= i}) = k

\* the k-th of the pieces that the tabs of cs separate
Piece(cs, k) == SubSeq(cs, TabAt(cs, k - 1) + 1, TabAt(cs, k) - 1)

\* cs is n pieces joined by n - 1 tabs, none leading, trailing or doubled
TabJoined(cs, n) ==
  IF n = 0 THEN cs = <<>>
  ELSE /\ Len(cs) > 0
       /\ Cardinality(TabPositions(cs)) = n - 1
       /\ cs[1] # "\t"
       /\ cs[Len(cs)] # "\t"
       /\ \A i \in 1..(Len(cs) - 1) : ~(cs[i] = "\t" /\ cs[i + 1] = "\t")

IntegerKinds == {"Int8", "UInt8", "Int16", "UInt16", "Int32", "UInt32"}

\* the type letter of the canonical form TAG:TYPE:VALUE
TypeLetter(ty) ==
  CASE ty = "Character" -> "A"
    [] ty \in IntegerKinds -> "i"
    [] ty = "Float" -> "f"
    [] ty = "String" -> "Z"
    [] ty = "Hex" -> "H"
    [] ty = "Array" -> "B"

\* cs ends with the characters of tail
EndsWith(cs, tail) ==
  /\ Len(cs) >= Len(tail)
  /\ SubSeq(cs, Len(cs) - Len(tail) + 1, Len(cs)) = tail

\* cs is the canonical rendering of the auxiliary field f
CanonicalField(cs, f) ==
  IF f.ty = "Array"
  THEN /\ Len(cs) >= Len(f.tag) + 4
       /\ SubSeq(cs, 1, Len(f.tag) + 4) = f.tag \o <<":", "B", ":", f.subtype>>
       /\ EndsWith(cs, Join(f.elems, <<",">>))
  ELSE cs = f.tag \o <<":", TypeLetter(f.ty), ":">> \o f.repr

(* C18: every auxiliary field of an alignment record is rendered in the    *)
(* canonical form TAG:TYPE:VALUE with the fixed type letters: A for a      *)
(* character, i for an integer of any width or signedness, f for a float,  *)
(* Z for a string, H for a hex value, and B followed by the element-type   *)
(* prefix and the comma-joined elements for a numeric array.               *)
C18_AuxiliaryFieldsCanonical ==
  RecordsMapped =>
    \A i \in 1..Len(input.dec.records) :
      \A k \in 1..Len(DecodedFields(input.dec.records[i].v.data)) :
        CanonicalField(Piece(DataChars(Body(outcome.value)[i]), k),
                       DecodedFields(input.dec.records[i].v.data)[k].v)


-----------------------------------------------------------------------------
(* The GFA line handlers on their own: one invocation of a GFA command on  *)
(* an input that holds a single line, the line drawn from every line kind  *)
(* with each of its text fields well formed or malformed, and from the     *)
(* segment lines with every sequence of optional fields.                   *)

\* well-formed and malformed bytes of a text field
TextBytes(t) == {Bytes(t, TRUE), Bytes(t, FALSE)}

\* the values of optional fields, of every kind of OptFieldVal
OptValues ==
  { [ty |-> "A", bytes |-> Bytes("c", TRUE)],
    [ty |-> "A", bytes |-> Bytes("?", FALSE)],
    [ty |-> "Int", int |-> -2],
    [ty |-> "Float", repr |-> "0.5"],
    [ty |-> "Z", bytes |-> Bytes("grp", TRUE)],
    [ty |-> "Z", bytes |-> Bytes("gr?", FALSE)],
    [ty |-> "J", bytes |-> Bytes("[1]", TRUE)],
    [ty |-> "J", bytes |-> Bytes("[?]", FALSE)],
    [ty |-> "H", elems |-> <<26, 255>>],
    [ty |-> "BInt", elems |-> <<1, -2>>],
    [ty |-> "BInt", elems |-> <<>>],
    [ty |-> "BFloat", reprs |-> <<"0.5", "1">>],
    [ty |-> "BFloat", reprs |-> <<>>] }

OptFields ==
  {[tag |-> GoodTag, value |-> v] : v \in OptValues}
  \cup {[tag |-> Bytes("L?", FALSE), value |-> [ty |-> "Int", int |-> 4]]}

\* no optional field, or one of the fields that can be malformed
FewOptionals ==
  { <<>>,
    <<[tag |-> GoodTag, value |-> [ty |-> "Z", bytes |-> Bytes("grp", TRUE)]]>>,
    <<[tag |-> GoodTag, value |-> [ty |-> "Z", bytes |-> Bytes("gr?", FALSE)]]>>,
    <<[tag |-> GoodTag, value |-> [ty |-> "J", bytes |-> Bytes("[?]", FALSE)]]>>,
    <<[tag |-> GoodTag, value |-> [ty |-> "A", bytes |-> Bytes("?", FALSE)]]>>,
    <<[tag |-> Bytes("L?", FALSE), value |-> [ty |-> "Int", int |-> 4]]>> }

HeaderFieldLines ==
  { [k |-> "H", version |-> v, optional |-> o] :
      v \in {None} \cup {Some(b) : b \in TextBytes("1.0")}, o \in FewOptionals }

SegmentFieldLines ==
  { [k |-> "S", name |-> n, sequence |-> q, optional |-> o] :
      n \in TextBytes("s1"), q \in TextBytes("ACGT"), o \in FewOptionals }

LinkFieldLines ==
  { [k |-> "L", from_segment |-> f, from_orient |-> "+", to_segment |-> t,
     to_orient |-> "-", overlap |-> v, optional |-> o] :
      f \in TextBytes("s1"), t \in TextBytes("s2"), v \in TextBytes("4M"),
      o \in FewOptionals }

ContainmentFieldLines ==
  { [k |-> "C", container_name |-> a, container_orient |-> "+",
     contained_name |-> b, contained_orient |-> "+", pos |-> 2,
     overlap |-> v, optional |-> o] :
      a \in TextBytes("s1"), b \in TextBytes("s2"), v \in TextBytes("2M"),
      o \in FewOptionals }

PathFieldLines ==
  { [k |-> "P", path_name |-> n, segment_names |-> g,
     overlaps |-> <<Some("4M"), None>>, optional |-> o] :
      n \in TextBytes("p1"), g \in TextBytes("s1+,s2-"), o \in FewOptionals }

\* the well-formed segment with every sequence of optional fields
OptionalLines ==
  { [k |-> "S", name |-> Bytes("s1", TRUE), sequence |-> Bytes("ACGT", TRUE),
     optional |-> o] : o \in SeqsUpTo(OptFields, MaxFields) }

LineInputs ==
  { [type |-> "binary", dec |-> [lines |-> <<l>>]] :
      l \in HeaderFieldLines \cup SegmentFieldLines \cup LinkFieldLines
            \cup ContainmentFieldLines \cup PathFieldLines \cup OptionalLines }

InitLine ==
  /\ pc = "call"
  /\ outcome = NoOutcome
  /\ served = 0
  /\ cmd \in GfaCommands
  /\ flags = NoFlags
  /\ input \in LineInputs

NextLine == FromGfa

SpecLine == InitLine /\ [][NextLine]_vars

\* a GFA command ran on an input of parsed lines
LinesParsed ==
  /\ Done
  /\ cmd \in GfaCommands
  /\ IsBytesInput(input)
  /\ \A i \in 1..Len(input.dec.lines) :
       input.dec.lines[i].k \in {"H", "S", "L", "C", "P"}

\* the type letter of a kind of optional-field value
OptLetter(ty) ==
  CASE ty = "A" -> "A"
    [] ty = "Int" -> "i"
    [] ty = "Float" -> "f"
    [] ty = "Z" -> "Z"
    [] ty = "J" -> "J"
    [] ty = "H" -> "Z"
    [] ty \in {"BInt", "BFloat"} -> "B"

\* every string followed by a comma, built from the last one
RECURSIVE EachThenComma(_)
EachThenComma(strs) ==
  IF strs = <<>> THEN ""
  ELSE EachThenComma(SubSeq(strs, 1, Len(strs) - 1)) \o strs[Len(strs)] \o ","

\* the text after TAG:TYPE: of a well-formed optional field
OptPayload(val) ==
  CASE val.ty \in {"A", "Z", "J"} -> val.bytes.text
    [] val.ty = "Int" -> ToString(val.int)
    [] val.ty = "Float" -> val.repr
    [] val.ty = "H" -> EachThenComma(MapSeq(FormatHexByte, val.elems))
    [] val.ty = "BInt" -> "i:" \o EachThenComma(MapSeq(ToString, val.elems))
    [] val.ty = "BFloat" -> "f:" \o EachThenComma(val.reprs)

\* the optional_fields column of the k-th record of a collection of a result
OptionalOut(v, collection, k) ==
  Column(Column(v, collection).items[k], "optional_fields").items

(* C19: parse_optfieldval renders every GFA optional field as              *)
(* TAG:TYPE:VALUE with the type letter A for a character, i for an         *)
(* integer, f for a float, Z for a string, J for JSON with its payload     *)
(* verbatim, Z (not H) for a hex value, and for numeric arrays B followed  *)
(* by i: or f: and the elements each followed by a comma, so that an empty *)
(* array renders as TAG:B:i: or TAG:B:f:.                                  *)
C19_OptionalFieldsCanonical ==
  (LinesParsed /\ outcome.kind = "ok" /\ Len(input.dec.lines) = 1
   /\ input.dec.lines[1].k = "S") =>
    /\ Len(OptionalOut(outcome.value, "segments", 1)) =
         Len(input.dec.lines[1].optional)
    /\ \A k \in 1..Len(input.dec.lines[1].optional) :
         OptionalOut(outcome.value, "segments", 1)[k] =
           VStr(input.dec.lines[1].optional[k].tag.text \o ":"
                \o OptLetter(input.dec.lines[1].optional[k].value.ty) \o ":"
                \o OptPayload(input.dec.lines[1].optional[k].value))

\* a hex value, an integer array and an empty float array were rendered
C19_Witness ==
  /\ LinesParsed
  /\ outcome.kind = "ok"
  /\ Len(input.dec.lines) = 1
  /\ input.dec.lines[1].k = "S"
  /\ Len(input.dec.lines[1].optional) = 3
  /\ OptionalOut(outcome.value, "segments", 1) =
       <<VStr("LN:Z:0x01a,0x0ff,"), VStr("LN:B:i:1,-2,"), VStr("LN:B:f:")>>

\* the optional field f has a malformed tag or a malformed text payload
MalformedOpt(f) ==
  \/ ~f.tag.valid
  \/ f.value.ty \in {"A", "Z", "J"} /\ ~f.value.bytes.valid

\* a text field of the line is no valid UTF-8
MalformedText(line) ==
  \/ \E k \in 1..Len(line.optional) : MalformedOpt(line.optional[k])
  \/ line.k = "H" /\ line.version.k = "some" /\ ~line.version.v.valid
  \/ line.k = "S" /\ (~line.name.valid \/ ~line.sequence.valid)
  \/ line.k = "L" /\ (~line.from_segment.valid \/ ~line.to_segment.valid
                      \/ ~line.overlap.valid)
  \/ line.k = "C" /\ (~line.container_name.valid \/ ~line.contained_name.valid
                      \/ ~line.overlap.valid)
  \/ line.k = "P" /\ (~line.path_name.valid \/ ~line.segment_names.valid)

(* C20: malformed UTF-8 in any text field of any GFA line kind (header     *)
(* version, segment name or sequence, link segment names or overlap,       *)
(* containment names or overlap, path name or segment names, optional-     *)
(* field tag or string, JSON or character payload) makes from_gfa return   *)
(* an error and no result.                                                 *)
C20_MalformedTextIsAnError ==
  LinesParsed =>
    ((\E i \in 1..Len(input.dec.lines) : MalformedText(input.dec.lines[i]))
       => outcome.kind = "err")


-----------------------------------------------------------------------------
\* the i-th line is a segment whose name is no valid UTF-8
MalformedSegmentName(lines, i) == lines[i].k = "S" /\ ~lines[i].name.valid

\* the read name of the decoded item x is no valid UTF-8
MalformedReadName(x) == x.k = "ok" /\ x.v.name.k = "some" /\ ~x.v.name.v.valid

(* C21: the two UTF-8 policies differ by format family. A GFA segment line *)
(* whose name is not valid UTF-8 makes from_gfa fail with an error and     *)
(* return no result, the lines parsed before it included; a SAM-family     *)
(* record whose read name is not valid UTF-8 yields a record with the      *)
(* lossily replaced read name, and the parse continues with the next       *)
(* record.                                                                 *)
C21_Utf8PolicyPerFamily ==
  /\ (Done /\ cmd \in GfaCommands /\ IsBytesInput(input)
      /\ \E i \in 1..Len(input.dec.lines) :
           MalformedSegmentName(input.dec.lines, i))
       => outcome.kind = "err"
  /\ RecordsMapped =>
       /\ outcome.kind = "ok"
       /\ Len(Body(outcome.value)) = Len(input.dec.records)
       /\ \A i \in 1..Len(input.dec.records) :
            MalformedReadName(input.dec.records[i]) =>
              Field(Body(outcome.value)[i], "read_name") =
                from_utf8_lossy(input.dec.records[i].v.name.v)

\* a malformed segment name after a good segment ended the GFA parse
C21_WitnessGfa ==
  /\ Done
  /\ cmd \in GfaCommands
  /\ IsBytesInput(input)
  /\ Len(input.dec.lines) = 2
  /\ input.dec.lines[1].k = "S"
  /\ input.dec.lines[1].name.valid
  /\ MalformedSegmentName(input.dec.lines, 2)
  /\ outcome.kind = "err"

\* a malformed read name was replaced and the record after it was mapped
C21_WitnessSam ==
  /\ RecordsMapped
  /\ cmd = "from sam"
  /\ Len(input.dec.records) = 2
  /\ MalformedReadName(input.dec.records[1])
  /\ input.dec.records[2].v = MappedRecord
  /\ outcome.kind = "ok"
  /\ Field(Body(outcome.value)[1], "read_name") = "re?d1"
  /\ Field(Body(outcome.value)[2], "read_name") = "read1"

\* either of the two cases of C21 happened
C21_Witness == C21_WitnessGfa \/ C21_WitnessSam


-----------------------------------------------------------------------------
\* the input without its blank lines
WithoutBlankLines(inp) ==
  [inp EXCEPT !.dec.lines = SelectSeq(@, LAMBDA l : l.k # "blank")]

(* C22: from_gfa skips every blank line without effect on the result, and  *)
(* when any non-blank line fails to parse under the GFA grammar it returns *)
(* an error for the whole invocation, discarding every segment, link,      *)
(* containment and path collected from earlier lines.                      *)
C22_BlankSkippedParseErrorFatal ==
  (Done /\ cmd \in GfaCommands /\ IsBytesInput(input)) =>
    /\ outcome = Invocation(cmd, flags, WithoutBlankLines(input))
    /\ (\E i \in 1..Len(input.dec.lines) : input.dec.lines[i].k = "parse_err")
         => outcome.kind = "err"

\* a blank line before a segment left the result of the segment alone
C22_WitnessBlank ==
  /\ Done
  /\ cmd \in GfaCommands
  /\ IsBytesInput(input)
  /\ Len(input.dec.lines) = 2
  /\ input.dec.lines[1].k = "blank"
  /\ input.dec.lines[2].k = "S"
  /\ outcome.kind = "ok"
  /\ Len(Column(outcome.value, "segments").items) = 1

\* a line that fails to parse after a good segment ended the parse
C22_WitnessParseError ==
  /\ Done
  /\ cmd \in GfaCommands
  /\ IsBytesInput(input)
  /\ Len(input.dec.lines) = 2
  /\ input.dec.lines[1].k = "S"
  /\ input.dec.lines[1].name.valid
  /\ input.dec.lines[2].k = "parse_err"
  /\ outcome.kind = "err"

\* either of the two cases of C22 happened
C22_Witness == C22_WitnessBlank \/ C22_WitnessParseError


-----------------------------------------------------------------------------
\* the line is blank, or parses and has no malformed text field
CleanLine(line) ==
  \/ line.k = "blank"
  \/ line.k \in {"H", "S", "L", "C", "P"} /\ ~MalformedText(line)

\* the positions of the header lines
HeaderLines(lines) == {i \in 1..Len(lines) : lines[i].k = "H"}

\* v is the record (version, optional_fields) built from the header line h
BuiltFromHeader(v, h) ==
  /\ v.type = "record"
  /\ v.cols = <<"version", "optional_fields">>
  /\ Column(v, "version") =
       VStr(IF h.version.k = "some" THEN h.version.v.text
            ELSE "No version specified")
  /\ Column(v, "optional_fields").type = "list"
  /\ Len(Column(v, "optional_fields").items) = Len(h.optional)

(* C23: when a GFA input contains no header line, from_gfa succeeds and    *)
(* the header field of the result equals the sentinel string value         *)
(* 'No header'; when it contains a header line, the header field is the    *)
(* record (version, optional_fields) built from it.                        *)
C23_HeaderSentinelOrRecord ==
  (Done /\ cmd \in GfaCommands /\ IsBytesInput(input)) =>
    /\ (/\ HeaderLines(input.dec.lines) = {}
        /\ \A i \in 1..Len(input.dec.lines) : CleanLine(input.dec.lines[i]))
         => /\ outcome.kind = "ok"
            /\ Column(outcome.value, "header") = VStr("No header")
    /\ (outcome.kind = "ok" /\ HeaderLines(input.dec.lines) # {})
         => \E i \in HeaderLines(input.dec.lines) :
              BuiltFromHeader(Column(outcome.value, "header"), input.dec.lines[i])

\* a graph of two segments and no header line was read
C23_WitnessAbsent ==
  /\ Done
  /\ cmd \in GfaCommands
  /\ IsBytesInput(input)
  /\ Len(input.dec.lines) = 2
  /\ HeaderLines(input.dec.lines) = {}
  /\ input.dec.lines[1].k = "S"
  /\ outcome.kind = "ok"
  /\ Column(outcome.value, "header") = VStr("No header")

\* a graph with a header line that has an optional field was read
C23_WitnessPresent ==
  /\ Done
  /\ cmd \in GfaCommands
  /\ IsBytesInput(input)
  /\ Len(input.dec.lines) = 2
  /\ input.dec.lines[1].k = "S"
  /\ input.dec.lines[2].k = "H"
  /\ Len(input.dec.lines[2].optional) = 1
  /\ outcome.kind = "ok"
  /\ Column(Column(outcome.value, "header"), "version") = VStr("2.0")

\* either of the two cases of C23 happened
C23_Witness == C23_WitnessAbsent \/ C23_WitnessPresent


-----------------------------------------------------------------------------
\* the column list that the flags of the invocation fix
FlagColumns(c, fl) ==
  <<"id">>
  \o (IF fl.description THEN <<"description">> ELSE <<>>)
  \o (IF c \in FastqCommands /\ fl.quality_scores
      THEN <<"quality_scores">> ELSE <<>>)
  \o <<"sequence">>

(* C24: for the sequence adapters the column list is fixed once per        *)
(* invocation from the flags (id, then description if the description flag *)
(* is set, then quality_scores if the quality-scores flag is set on FASTQ,  *)
(* then sequence) and every record of the result has exactly that column   *)
(* list in that order; with description requested, a FASTA record that has *)
(* no description still has a description column, holding the empty string.*)
C24_ColumnsFixedByFlags ==
  (Succeeded /\ cmd \in FastaCommands \cup FastqCommands) =>
    \A i \in 1..Len(Body(outcome.value)) :
      /\ Body(outcome.value)[i].cols = FlagColumns(cmd, flags)
      /\ Len(Body(outcome.value)[i].vals) = Len(FlagColumns(cmd, flags))
      /\ (cmd \in FastaCommands /\ flags.description
          /\ input.dec.records[i].v.description.k = "none")
           => Column(Body(outcome.value)[i], "description") = VText(<<>>)

\* a FASTA record with a description and one without, read with the flag
C24_WitnessFasta ==
  /\ Succeeded
  /\ cmd \in FastaCommands
  /\ flags.description
  /\ Len(Body(outcome.value)) = 2
  /\ input.dec.records[1].v.description.k = "some"
  /\ input.dec.records[2].v.description.k = "none"
  /\ Column(Body(outcome.value)[1], "description") = VText(<<"d">>)
  /\ Column(Body(outcome.value)[2], "description") = VText(<<>>)

\* FASTQ records read with both flags
C24_WitnessFastq ==
  /\ Succeeded
  /\ cmd \in FastqCommands
  /\ flags.description
  /\ flags.quality_scores
  /\ Len(Body(outcome.value)) = 2
  /\ Body(outcome.value)[2].cols =
       <<"id", "description", "quality_scores", "sequence">>

\* either of the two cases of C24 happened
C24_Witness == C24_WitnessFasta \/ C24_WitnessFastq


-----------------------------------------------------------------------------
(* C25: the BED and GFF adapters, given Binary or String input of any      *)
(* well-formed content and any number of records, return successfully with *)
(* an empty list and never an error.                                       *)
C25_StubsReturnEmptyList ==
  (Done /\ cmd \in StubCommands /\ IsBytesInput(input)) =>
    outcome = Ok(VList(<<>>))

\* from bed ran on an input of two records
C25_Witness ==
  /\ Done
  /\ cmd = "from bed"
  /\ IsBytesInput(input)
  /\ Len(input.dec.records) = 2
  /\ outcome.kind = "ok"
  /\ outcome.value.items = <<>>


-----------------------------------------------------------------------------
\* an alignment command returned a result with the mapped header
HeaderMapped ==
  /\ HeaderDecoded
  /\ cmd \in AlignmentCommands
  /\ outcome.kind = "ok"

\* the entries of the read_groups field of the header value h
ReadGroupEntries(h) == Column(h, "read_groups").vals

\* h has the five fields, the four metadata keys, a programs record, and
\* read-group entries of the thirteen fixed keys
ConstantShape(h) ==
  /\ h.cols = << "metadata", "reference_sequences", "read_groups", "programs",
                 "comments" >>
  /\ Len(h.vals) = 5
  /\ Column(h, "metadata").cols =
       <<"version", "sorting_order", "grouping", "sub_sort_order">>
  /\ Len(Column(h, "metadata").vals) = 4
  /\ Column(h, "programs").type = "record"
  /\ \A i \in 1..Len(ReadGroupEntries(h)) :
       ReadGroupEntries(h)[i].cols =
         << "id", "barcode", "sequencing_center", "description", "flow_order",
            "key_sequence", "library", "program", "platform",
            "predicted_insert_size", "platform_model", "platform_unit",
            "sample" >>

(* C26: the alignment header mapper returns a value of constant shape for  *)
(* every decoded header: exactly the five fields metadata,                 *)
(* reference_sequences, read_groups, programs, comments in that order;     *)
(* metadata always has the four keys, even with no @HD line; every         *)
(* read-group entry has the same fixed key set with sentinel strings for   *)
(* the sub-fields missing from the input; programs is present even when    *)
(* empty.                                                                  *)
C26_HeaderShapeSentinelStrings ==
  HeaderMapped =>
    /\ ConstantShape(Column(outcome.value, "header"))
    /\ \A i \in 1..Len(ReadGroupEntries(Column(outcome.value, "header"))) :
         \A k \in 2..13 :
           ReadGroupEntries(Column(outcome.value, "header"))[i].vals[k].type
             = "string"

(* C26, amended: the shape is constant as claimed, and the sub-fields of a *)
(* read-group entry hold sentinel values: the string 'unknown', and the    *)
(* integer 0 for predicted_insert_size.                                    *)
C26_HeaderShapeSentinelValues ==
  HeaderMapped =>
    /\ ConstantShape(Column(outcome.value, "header"))
    /\ Len(ReadGroupEntries(Column(outcome.value, "header"))) =
         Len(input.dec.header.v.read_groups)
    /\ \A i \in 1..Len(ReadGroupEntries(Column(outcome.value, "header"))) :
         /\ Len(ReadGroupEntries(Column(outcome.value, "header"))[i].vals) = 13
         /\ \A k \in 2..13 :
              ReadGroupEntries(Column(outcome.value, "header"))[i].vals[k] =
                (IF k = 10 THEN VInt(0) ELSE VStr("unknown"))

\* a header with no @HD line and two read groups was mapped
C26_Witness ==
  /\ HeaderMapped
  /\ input.dec.header.v.hd.k = "none"
  /\ Len(input.dec.header.v.read_groups) = 2
  /\ Len(ReadGroupEntries(Column(outcome.value, "header"))) = 2
  /\ Column(Column(outcome.value, "header"), "programs").cols = <<>>


-----------------------------------------------------------------------------
(* A plugin process serving several invocations one after the other: when  *)
(* an invocation is done the next call arrives with a command, flags and   *)
(* an input of its own.  The result of the previous invocation is still in *)
(* outcome when the next handler starts.                                   *)

\* the inputs of at most one record, line or list element
SessionInputs(c) ==
  { x \in InputsOf(c) :
      CASE x.type = "list" -> Len(x.items) <= 1
        [] ~IsBytesInput(x) -> TRUE
        [] c \in GfaCommands -> Len(x.dec.lines) <= 1
        [] OTHER -> Len(x.dec.records) <= 1 }

InitSession ==
  /\ pc = "call"
  /\ outcome = NoOutcome
  /\ served = 0
  /\ cmd \in Commands
  /\ flags \in FlagsOf(cmd)
  /\ input \in SessionInputs(cmd)

\* serve_plugin hands the next call to the run handler of its command
NextCall ==
  /\ pc = "done"
  /\ served < MaxCalls
  /\ pc' = "call"
  /\ cmd' \in Commands
  /\ flags' \in FlagsOf(cmd')
  /\ input' \in SessionInputs(cmd')
  /\ UNCHANGED <<outcome, served>>

NextSession ==
  \/ FromFasta
  \/ FromFastq
  \/ ToFasta
  \/ ToFastq
  \/ FromBam
  \/ FromSam
  \/ FromCram
  \/ FromBcf
  \/ FromVcf
  \/ FromGff
  \/ FromGfa
  \/ FromBed
  \/ NextCall

SpecSession == InitSession /\ [][NextSession]_vars

-----------------------------------------------------------------------------
\* a reverse mapper ran on a list
ListMapped ==
  /\ Done
  /\ cmd \in {"to fasta", "to fastq"}
  /\ input.type = "list"

\* el is no record, has no columns, or holds a value that is no string in
\* its identifier column or in its sequence column
Unwritable(el) ==
  \/ el.type # "record"
  \/ el.type = "record" /\ el.vals = <<>>
  \/ el.type = "record" /\ \E k \in {1, Len(el.vals)} : el.vals[k].type # "string"

(* C28: the reverse mappers never crash: for every list input, an element  *)
(* that is not a record, a record with no columns, and a record whose      *)
(* identifier, description or quality column holds a non-string value each *)
(* make to fasta / to fastq return an error value, exactly as a non-string *)
(* sequence column does.                                                   *)
C28_ReverseMappersNeverCrash ==
  ListMapped =>
    /\ outcome.kind # "panic"
    /\ (\E i \in 1..Len(input.items) : Unwritable(input.items[i]))
         => outcome.kind = "err"


-----------------------------------------------------------------------------
\* to fastq accepted a list and wrote its text
FastqWritten ==
  /\ Succeeded
  /\ cmd = "to fastq"
  /\ input.type = "list"

\* the characters of the column of el of that name; none without the column
NamedChars(el, name) ==
  IF Contains(el.cols, name) THEN Column(el, name).chars ELSE <<>>

\* the text of the records, each written from its columns taken by name
RECURSIVE WrittenByName(_)
WrittenByName(items) ==
  IF items = <<>> THEN <<>>
  ELSE FastqWriteRecord(NamedChars(Head(items), "id"),
                        NamedChars(Head(items), "description"),
                        NamedChars(Head(items), "sequence"),
                        NamedChars(Head(items), "quality_scores"))
       \o WrittenByName(Tail(items))

\* the two column lists in the order the mapper reads them
FixedOrders ==
  { <<"id", "quality_scores", "sequence">>,
    <<"id", "description", "quality_scores", "sequence">> }

(* C29: in to fastq, for every record of an accepted list, the quality     *)
(* string written is the value of that record's column named               *)
(* quality_scores and the description written is the value of its column   *)
(* named description (empty when the shape has none), whatever the order   *)
(* of the columns inside the record and whether or not the record has the  *)
(* same columns as the first record.                                       *)
C29_FastqWrittenByName ==
  FastqWritten => outcome.value.chars = WrittenByName(input.items)

\* the characters of the k-th value of el before its last one; none past it
PositionChars(el, k) ==
  IF k <= Len(el.vals) - 1 THEN el.vals[k].chars ELSE <<>>

\* the text of the records, each written from its values taken by position:
\* the description is the second value when the shape has one, and the
\* quality string the value after it
RECURSIVE WrittenByPosition(_, _)
WrittenByPosition(items, description) ==
  IF items = <<>> THEN <<>>
  ELSE FastqWriteRecord(PositionChars(Head(items), 1),
                        IF description THEN PositionChars(Head(items), 2)
                        ELSE <<>>,
                        Head(items).vals[Len(Head(items).vals)].chars,
                        PositionChars(Head(items), IF description THEN 3 ELSE 2))
       \o WrittenByPosition(Tail(items), description)

(* C29, amended: for every record of an accepted list the values are taken *)
(* by position under the shape of the first record: the description        *)
(* written is the second value of the record when the first record has a   *)
(* description column (empty otherwise) and the quality string is the      *)
(* value after it.  These are the values of the columns named description  *)
(* and quality_scores when the record has the columns of the first record  *)
(* in the order id, description (if any), quality_scores, sequence.        *)
C29_FastqWrittenByPosition ==
  FastqWritten =>
    /\ outcome.value.chars =
         WrittenByPosition(input.items,
                           Contains(input.items[1].cols, "description"))
    /\ (\A i \in 1..Len(input.items) :
          /\ input.items[i].cols \in FixedOrders
          /\ input.items[i].cols = input.items[1].cols)
         => outcome.value.chars = WrittenByName(input.items)

\* two records with a description and quality scores were written
C29_Witness ==
  /\ FastqWritten
  /\ Len(input.items) = 2
  /\ input.items[1].cols = <<"id", "description", "quality_scores", "sequence">>
  /\ input.items[2].cols = <<"id", "description", "quality_scores", "sequence">>
  /\ outcome.value.chars = WrittenByName(input.items)
  /\ Len(outcome.value.chars) > 0


-----------------------------------------------------------------------------
\* from_gfa returned a result
GraphRead ==
  /\ Succeeded
  /\ cmd \in GfaCommands

\* the lines of the kind, in the order of the input
LinesOfKind(lines, kind) == SelectSeq(lines, LAMBDA l : l.k = kind)

\* the list of the result holds one entry for every line of the kind, the
\* j-th entry being the value of the j-th of these lines
ListHoldsKind(v, collection, lines, kind) ==
  /\ Len(Column(v, collection).items) = Len(LinesOfKind(lines, kind))
  /\ \A j \in 1..Len(LinesOfKind(lines, kind)) :
       Column(v, collection).items[j] = LineValue(LinesOfKind(lines, kind)[j]).value

(* C30: on every successful from_gfa call, each non-blank input line       *)
(* contributes exactly one entry to exactly one collection chosen by its   *)
(* kind, so the four output lists together with the header lines account   *)
(* for all non-blank lines; each list keeps the input order of its lines;  *)
(* and when the input has several header lines the header field is built   *)
(* from the first one only.                                                *)
C30_LinesAccountedInOrder ==
  GraphRead =>
    /\ ListHoldsKind(outcome.value, "segments", input.dec.lines, "S")
    /\ ListHoldsKind(outcome.value, "links", input.dec.lines, "L")
    /\ ListHoldsKind(outcome.value, "containments", input.dec.lines, "C")
    /\ ListHoldsKind(outcome.value, "paths", input.dec.lines, "P")
    /\ Len(Column(outcome.value, "segments").items)
       + Len(Column(outcome.value, "links").items)
       + Len(Column(outcome.value, "containments").items)
       + Len(Column(outcome.value, "paths").items)
       + Len(LinesOfKind(input.dec.lines, "H"))
       = Len(SelectSeq(input.dec.lines, LAMBDA l : l.k # "blank"))
    /\ LinesOfKind(input.dec.lines, "H") # <<>> =>
         Column(outcome.value, "header") =
           HeaderLine(LinesOfKind(input.dec.lines, "H")[1]).value

\* two different segments were read and kept in their order
C30_WitnessOrder ==
  /\ GraphRead
  /\ Len(input.dec.lines) = 2
  /\ input.dec.lines[1].k = "S"
  /\ input.dec.lines[2].k = "S"
  /\ Column(Column(outcome.value, "segments").items[1], "name") = VStr("s2")
  /\ Column(Column(outcome.value, "segments").items[2], "name") = VStr("s1")

\* two different header lines were read and the first one was kept
C30_WitnessHeaders ==
  /\ GraphRead
  /\ Len(input.dec.lines) = 2
  /\ input.dec.lines[1].k = "H"
  /\ input.dec.lines[2].k = "H"
  /\ input.dec.lines[1] # input.dec.lines[2]
  /\ Column(Column(outcome.value, "header"), "version") = VStr("2.0")

\* either of the two cases of C30 happened
C30_Witness == C30_WitnessOrder \/ C30_WitnessHeaders


====
